---- MODULE Spec2Model ----
(***************************************************************************)
(* Query-to-aggregation translator of the customer shopping dashboard:     *)
(* CustomerDataAnalysisTool (core/ai/agent.py), CustomerShoppingAgent's     *)
(* local processing and visualization pipeline, and SimpleAgenticWorkflow   *)
(* (demo_agentic_workflow_simple.py).  A query is a Python str, modelled as *)
(* a sequence of one-character strings; `in` is substring containment.      *)
(* The dataset loader (src/customer_data_loader.py) and the narrative        *)
(* generator (core/ai/generator.py over src/ai_provider.py) have their own  *)
(* specifications, LoaderSpec and NarrativeSpec, over the same variables;   *)
(* so have AIConfig (ConfigSpec) and a session of repeated queries on one   *)
(* table with the Streamlit page's cached loader (SessionSpec).             *)
(***************************************************************************)
EXTENDS Integers, Sequences, FiniteSets, TLC

\* ------------------------------------------------------------------ bounds
\* Largest number of vocabulary words composed into one query.
MaxWords == 3

\* Most columns of a result table handed to generate_visualization directly.
MaxColumns == 2

\* Most rows of the input file.
MaxRows == 2

\* ------------------------------------------------------------- str helpers
ascii_uppercase == <<"A","B","C","D","E","F","G","H","I","J","K","L","M","N","O","P","Q","R","S","T","U","V","W","X","Y","Z">>
ascii_lowercase == <<"a","b","c","d","e","f","g","h","i","j","k","l","m","n","o","p","q","r","s","t","u","v","w","x","y","z">>

\* The lower-case letter of each upper-case ASCII letter.
lower_of ==
    [ c \in { ascii_uppercase[k] : k \in 1..Len(ascii_uppercase) } |->
        ascii_lowercase[CHOOSE k \in 1..Len(ascii_uppercase) : ascii_uppercase[k] = c] ]

\* str.lower(): every upper-case ASCII letter is replaced by its lower-case one.
lower(s) ==
    [ i \in 1..Len(s) |-> IF s[i] \in DOMAIN lower_of THEN lower_of[s[i]] ELSE s[i] ]

\* Whole-word matching: sub occurs in s between blanks or the ends of s.
contains_word(sub, s) ==
    LET n == Len(sub)
        m == Len(s)
    IN  \E i \in 1..m :
            /\ i + n - 1 <= m
            /\ \A j \in 1..n : s[i + j - 1] = sub[j]
            /\ (i = 1 \/ s[i - 1] = " ")
            /\ (i + n - 1 = m \/ s[i + n] = " ")

\* Python `sub in s` for two str values: sub occurs as a contiguous slice of s
\* (the empty str occurs in every str).
contains(sub, s) ==
    LET n == Len(sub)
        m == Len(s)
    IN  IF n = 0 THEN TRUE
        ELSE LET c == sub[1]
             IN  \E i \in 1..m :
                     /\ s[i] = c
                     /\ i + n - 1 <= m
                     /\ \A j \in 2..n : s[i + j - 1] = sub[j]

\* The keyword literals tested by the rule lists.
KW ==
    [ revenue |-> <<"r","e","v","e","n","u","e">>,
      sales |-> <<"s","a","l","e","s">>,
      category |-> <<"c","a","t","e","g","o","r","y">>,
      mall |-> <<"m","a","l","l">>,
      shopping |-> <<"s","h","o","p","p","i","n","g">>,
      gender |-> <<"g","e","n","d","e","r">>,
      age |-> <<"a","g","e">>,
      payment |-> <<"p","a","y","m","e","n","t">>,
      customer |-> <<"c","u","s","t","o","m","e","r">>,
      trend |-> <<"t","r","e","n","d">>,
      time |-> <<"t","i","m","e">>,
      quantity |-> <<"q","u","a","n","t","i","t","y">>,
      summary |-> <<"s","u","m","m","a","r","y">>,
      overview |-> <<"o","v","e","r","v","i","e","w">>,
      popular |-> <<"p","o","p","u","l","a","r">>,
      most |-> <<"m","o","s","t">>,
      spending |-> <<"s","p","e","n","d","i","n","g">>,
      preference |-> <<"p","r","e","f","e","r","e","n","c","e">>,
      group |-> <<"g","r","o","u","p">>,
      method |-> <<"m","e","t","h","o","d">>,
      segment |-> <<"s","e","g","m","e","n","t">>,
      daily |-> <<"d","a","i","l","y">>,
      monthly |-> <<"m","o","n","t","h","l","y">>,
      distribution |-> <<"d","i","s","t","r","i","b","u","t","i","o","n">>,
      pie |-> <<"p","i","e">> ]

\* ------------------------------------------------------------------ inputs
\* Words a query is composed from (joined by single blanks).
Vocabulary ==
    << <<"R","e","v","e","n","u","e">>,
       <<"s","a","l","e","s">>,
       <<"c","a","t","e","g","o","r","y">>,
       <<"m","a","l","l","s">>,
       <<"s","h","o","p","p","i","n","g">>,
       <<"g","e","n","d","e","r">>,
       <<"a","g","e">>,
       <<"p","a","y","m","e","n","t">>,
       <<"c","u","s","t","o","m","e","r">>,
       <<"t","r","e","n","d","s">>,
       <<"t","i","m","e">>,
       <<"q","u","a","n","t","i","t","y">>,
       <<"s","u","m","m","a","r","y">>,
       <<"o","v","e","r","v","i","e","w">>,
       <<"p","o","p","u","l","a","r">>,
       <<"m","o","s","t">>,
       <<"s","p","e","n","d","i","n","g">>,
       <<"p","r","e","f","e","r","e","n","c","e">>,
       <<"g","r","o","u","p">>,
       <<"m","e","t","h","o","d">>,
       <<"s","e","g","m","e","n","t">>,
       <<"d","a","i","l","y">>,
       <<"m","o","n","t","h","l","y">>,
       <<"d","i","s","t","r","i","b","u","t","i","o","n">>,
       <<"p","i","e">>,
       <<"S","h","o","w">>,
       <<"x","y","z">> >>

\* Predefined analysis queries of create_automated_analysis.
queries ==
    << <<"S","h","o","w"," ","m","e"," ","r","e","v","e","n","u","e"," ","t","r","e","n","d","s"," ","b","y"," ","c","a","t","e","g","o","r","y">>,
       <<"W","h","a","t"," ","a","r","e"," ","t","h","e"," ","m","o","s","t"," ","p","o","p","u","l","a","r"," ","s","h","o","p","p","i","n","g"," ","m","a","l","l","s","?">>,
       <<"S","h","o","w"," ","m","e"," ","s","p","e","n","d","i","n","g"," ","a","n","a","l","y","s","i","s"," ","b","y"," ","g","e","n","d","e","r">>,
       <<"G","i","v","e"," ","m","e"," ","a"," ","s","u","m","m","a","r","y"," ","o","f"," ","c","u","s","t","o","m","e","r"," ","s","h","o","p","p","i","n","g"," ","d","a","t","a">>,
       <<"W","h","a","t"," ","a","r","e"," ","t","h","e"," ","t","r","e","n","d","s"," ","i","n"," ","c","u","s","t","o","m","e","r"," ","s","p","e","n","d","i","n","g"," ","b","y"," ","a","g","e"," ","g","r","o","u","p","?">> >>

\* Demo queries with the chart type the demo expects for each.
viz_queries ==
    << << <<"S","h","o","w"," ","m","e"," ","r","e","v","e","n","u","e"," ","t","r","e","n","d","s"," ","b","y"," ","c","a","t","e","g","o","r","y">>,
         "line" >>,
       << <<"W","h","a","t"," ","a","r","e"," ","t","h","e"," ","m","o","s","t"," ","p","o","p","u","l","a","r"," ","s","h","o","p","p","i","n","g"," ","m","a","l","l","s","?">>,
         "bar" >>,
       << <<"S","h","o","w"," ","m","e"," ","s","p","e","n","d","i","n","g"," ","a","n","a","l","y","s","i","s"," ","b","y"," ","g","e","n","d","e","r">>,
         "bar" >>,
       << <<"S","h","o","w"," ","m","e"," ","c","a","t","e","g","o","r","y"," ","d","i","s","t","r","i","b","u","t","i","o","n">>,
         "pie" >>,
       << <<"S","h","o","w"," ","m","e"," ","d","a","i","l","y"," ","r","e","v","e","n","u","e"," ","t","r","e","n","d","s">>,
         "line" >> >>

\* The query of the demo's translation_examples that names the plural of a keyword.
translation_examples ==
    << <<"W","h","i","c","h"," ","c","a","t","e","g","o","r","i","e","s"," ","h","a","v","e"," ","t","h","e"," ","h","i","g","h","e","s","t"," ","r","e","v","e","n","u","e","?">> >>

\* Queries that hold a keyword inside a longer word only, each with the query
\* that holds the same keywords as separate words.
inside_word_queries ==
    << << <<"a","v","e","r","a","g","e">>, <<"a","g","e">> >>,
       << <<"s","m","a","l","l">>, <<"m","a","l","l">> >>,
       << <<"a","l","m","o","s","t"," ","s","m","a","l","l">>, <<"m","o","s","t"," ","m","a","l","l">> >>,
       << <<"s","o","m","e","t","i","m","e","s">>, <<"t","i","m","e">> >>,
       << <<"A","v","e","r","a","g","e"," ","s","p","e","n","d","i","n","g">>, <<"a","g","e"," ","s","p","e","n","d","i","n","g">> >> >>

RECURSIVE join(_)
\* " ".join(words)
join(words) ==
    IF Len(words) = 0 THEN << >>
    ELSE IF Len(words) = 1 THEN words[1]
    ELSE words[1] \o <<" ">> \o join(Tail(words))

\* Selections of at most MaxWords distinct vocabulary words.  The keywords hold
\* no blank, so an occurrence never spans two words and the order of the words
\* does not change any containment test: selections are taken in vocabulary order.
RECURSIVE Selections(_)
Selections(k) ==
    IF k = 0 THEN { << >> }
    ELSE LET shorter == Selections(k - 1)
         IN  shorter \cup
             UNION { { Append(f, w) : w \in ((IF f = << >> THEN 0 ELSE f[Len(f)]) + 1)..Len(Vocabulary) }
                     : f \in { g \in shorter : Len(g) = k - 1 } }

Queries ==
    { join([ i \in 1..Len(sel) |-> Vocabulary[sel[i]] ]) : sel \in Selections(MaxWords) }
      \cup { queries[i] : i \in 1..Len(queries) }
      \cup { viz_queries[i][1] : i \in 1..Len(viz_queries) }
      \cup { translation_examples[i] : i \in 1..Len(translation_examples) }
      \cup { inside_word_queries[i][1] : i \in 1..Len(inside_word_queries) }

\* ------------------------------------------------------- generated pandas code
\* A generated code string, by what Python's exec reads in it: the statement
\* kind, the group-by columns, the reduced column and reduction, the trailing
\* sort_values(..., ascending=False), the blanks in front of the first statement
\* (indent), the keys of a dict literal, and the name the statement assigns.
groupby(by, metric, agg, target) ==
    [ kind |-> "groupby", by |-> by, metric |-> metric, agg |-> agg,
      sort_desc |-> FALSE, indent |-> 0, keys |-> {}, assigns |-> target ]

\* ...size().reset_index(name='count'), optionally sorted by count descending.
size(by, sorted, target) ==
    [ kind |-> "groupby", by |-> by, metric |-> "count", agg |-> "size",
      sort_desc |-> sorted, indent |-> 0, keys |-> {}, assigns |-> target ]

\* The triple-quoted customer segmentation block; its first statement
\* starts after 16 blanks.
segment_block ==
    [ kind |-> "segment", by |-> <<"segment">>, metric |-> "count", agg |-> "size",
      sort_desc |-> FALSE, indent |-> 16, keys |-> {}, assigns |-> "result" ]

\* The triple-quoted summary dict block; its first statement starts after
\* 12 blanks.
summary_block ==
    [ kind |-> "dict", by |-> << >>, metric |-> "", agg |-> "",
      sort_desc |-> FALSE, indent |-> 12,
      keys |-> { "total_revenue", "total_transactions", "total_customers", "total_invoices",
                 "avg_transaction_value", "total_quantity", "categories", "malls" },
      assigns |-> "result" ]

\* SimpleAgenticWorkflow's one-line summary statement.
summary_stats ==
    [ kind |-> "dict", by |-> << >>, metric |-> "", agg |-> "",
      sort_desc |-> FALSE, indent |-> 0,
      keys |-> { "total_revenue", "total_transactions", "total_customers" },
      assigns |-> "summary_stats" ]

\* The rule families of _generate_pandas_code, each the body of one branch of
\* its if/elif chain; q is query_lower.
sales_and_revenue_analysis(q) ==
    IF contains(KW.category, q) THEN groupby(<<"category">>, "total_amount", "sum", "result")
    ELSE IF contains(KW.mall, q) \/ contains(KW.shopping, q) THEN groupby(<<"shopping_mall">>, "total_amount", "sum", "result")
    ELSE IF contains(KW.gender, q) THEN groupby(<<"gender">>, "total_amount", "sum", "result")
    ELSE IF contains(KW.age, q) THEN groupby(<<"age_group">>, "total_amount", "sum", "result")
    ELSE groupby(<<"invoice_date">>, "total_amount", "sum", "result")

category_analysis(q) ==
    IF contains(KW.popular, q) \/ contains(KW.most, q) THEN size(<<"category">>, TRUE, "result")
    ELSE groupby(<<"category">>, "total_amount", "sum", "result")

\* Faulty variant: the popularity ranking of malls is returned unsorted.
shopping_mall_analysis_unsorted(q) ==
    IF contains(KW.popular, q) \/ contains(KW.most, q) THEN size(<<"shopping_mall">>, FALSE, "result")
    ELSE groupby(<<"shopping_mall">>, "total_amount", "sum", "result")

shopping_mall_analysis(q) ==
    IF contains(KW.popular, q) \/ contains(KW.most, q) THEN size(<<"shopping_mall">>, TRUE, "result")
    ELSE groupby(<<"shopping_mall">>, "total_amount", "sum", "result")

gender_analysis(q) ==
    IF contains(KW.spending, q) THEN groupby(<<"gender">>, "total_amount", "sum", "result")
    ELSE IF contains(KW.preference, q) \/ contains(KW.category, q) THEN groupby(<<"gender", "category">>, "total_amount", "sum", "result")
    ELSE size(<<"gender">>, FALSE, "result")

age_analysis(q) ==
    IF contains(KW.group, q) THEN groupby(<<"age_group">>, "total_amount", "sum", "result")
    ELSE IF contains(KW.spending, q) THEN groupby(<<"age_group">>, "total_amount", "mean", "result")
    ELSE size(<<"age_group">>, FALSE, "result")

payment_method_analysis(q) ==
    IF contains(KW.method, q) THEN groupby(<<"payment_method">>, "total_amount", "sum", "result")
    ELSE size(<<"payment_method">>, FALSE, "result")

customer_analysis(q) ==
    IF contains(KW.segment, q) THEN segment_block
    ELSE groupby(<<"customer_id">>, "total_amount", "sum", "result")

time_series_analysis(q) ==
    IF contains(KW.daily, q) THEN groupby(<<"invoice_date">>, "total_amount", "sum", "result")
    ELSE IF contains(KW.monthly, q) THEN groupby(<<"year", "month">>, "total_amount", "sum", "result")
    ELSE groupby(<<"invoice_date">>, "total_amount", "sum", "result")

quantity_analysis(q) ==
    IF contains(KW.category, q) THEN groupby(<<"category">>, "quantity", "sum", "result")
    ELSE IF contains(KW.mall, q) THEN groupby(<<"shopping_mall">>, "quantity", "sum", "result")
    ELSE groupby(<<"invoice_date">>, "quantity", "sum", "result")

\* Faulty variant: the default branch falls back to the time series.
default_analysis_by_date ==
    groupby(<<"invoice_date">>, "total_amount", "sum", "result")

default_analysis ==
    groupby(<<"category">>, "total_amount", "sum", "result")

\* Faulty variant: the gender branch is tested before the category and mall branches.
generate_pandas_code_gender_first(q) ==
    LET query_lower == lower(q)
    IN  IF contains(KW.revenue, query_lower) \/ contains(KW.sales, query_lower) THEN sales_and_revenue_analysis(query_lower)
        ELSE IF contains(KW.gender, query_lower) THEN gender_analysis(query_lower)
        ELSE IF contains(KW.category, query_lower) THEN category_analysis(query_lower)
        ELSE IF contains(KW.mall, query_lower) \/ contains(KW.shopping, query_lower) THEN shopping_mall_analysis(query_lower)
        ELSE IF contains(KW.age, query_lower) THEN age_analysis(query_lower)
        ELSE IF contains(KW.payment, query_lower) THEN payment_method_analysis(query_lower)
        ELSE IF contains(KW.customer, query_lower) THEN customer_analysis(query_lower)
        ELSE IF contains(KW.trend, query_lower) \/ contains(KW.time, query_lower) THEN time_series_analysis(query_lower)
        ELSE IF contains(KW.quantity, query_lower) THEN quantity_analysis(query_lower)
        ELSE IF contains(KW.summary, query_lower) \/ contains(KW.overview, query_lower) THEN summary_block
        ELSE default_analysis

\* CustomerDataAnalysisTool._generate_pandas_code: the if/elif chain over the
\* lower-cased query.
generate_pandas_code(q) ==
    LET query_lower == lower(q)
    IN  IF contains(KW.revenue, query_lower) \/ contains(KW.sales, query_lower) THEN sales_and_revenue_analysis(query_lower)
        ELSE IF contains(KW.category, query_lower) THEN category_analysis(query_lower)
        ELSE IF contains(KW.mall, query_lower) \/ contains(KW.shopping, query_lower) THEN shopping_mall_analysis(query_lower)
        ELSE IF contains(KW.gender, query_lower) THEN gender_analysis(query_lower)
        ELSE IF contains(KW.age, query_lower) THEN age_analysis(query_lower)
        ELSE IF contains(KW.payment, query_lower) THEN payment_method_analysis(query_lower)
        ELSE IF contains(KW.customer, query_lower) THEN customer_analysis(query_lower)
        ELSE IF contains(KW.trend, query_lower) \/ contains(KW.time, query_lower) THEN time_series_analysis(query_lower)
        ELSE IF contains(KW.quantity, query_lower) THEN quantity_analysis(query_lower)
        ELSE IF contains(KW.summary, query_lower) \/ contains(KW.overview, query_lower) THEN summary_block
        ELSE default_analysis

\* SimpleAgenticWorkflow.translate_query_to_pandas: the code is an expression
\* (no assignment) except for the summary statement.
translate_query_to_pandas(q) ==
    LET query_lower == lower(q)
        has(kw) == contains(kw, query_lower)
    IN  IF has(KW.revenue) \/ has(KW.sales) THEN
            IF has(KW.trend) /\ has(KW.category) THEN groupby(<<"invoice_date", "category">>, "total_amount", "sum", "")
            ELSE IF has(KW.category) THEN groupby(<<"category">>, "total_amount", "sum", "")
            ELSE IF has(KW.mall) \/ has(KW.shopping) THEN groupby(<<"shopping_mall">>, "total_amount", "sum", "")
            ELSE IF has(KW.gender) THEN groupby(<<"gender">>, "total_amount", "sum", "")
            ELSE IF has(KW.age) THEN groupby(<<"age_group">>, "total_amount", "sum", "")
            ELSE IF has(KW.trend) THEN groupby(<<"invoice_date">>, "total_amount", "sum", "")
            ELSE groupby(<<"category">>, "total_amount", "sum", "")
        ELSE IF has(KW.category) THEN
            IF has(KW.popular) \/ has(KW.most) THEN size(<<"category">>, TRUE, "")
            ELSE groupby(<<"category">>, "total_amount", "sum", "")
        ELSE IF has(KW.mall) \/ has(KW.shopping) THEN
            IF has(KW.popular) \/ has(KW.most) THEN size(<<"shopping_mall">>, TRUE, "")
            ELSE groupby(<<"shopping_mall">>, "total_amount", "sum", "")
        ELSE IF has(KW.gender) THEN
            IF has(KW.spending) THEN groupby(<<"gender">>, "total_amount", "sum", "")
            ELSE size(<<"gender">>, FALSE, "")
        ELSE IF has(KW.age) THEN
            IF has(KW.spending) THEN groupby(<<"age_group">>, "total_amount", "sum", "")
            ELSE size(<<"age_group">>, FALSE, "")
        ELSE IF has(KW.payment) THEN groupby(<<"payment_method">>, "total_amount", "sum", "")
        ELSE IF has(KW.summary) \/ has(KW.overview) THEN summary_stats
        ELSE groupby(<<"category">>, "total_amount", "sum", "")

\* ------------------------------------------------------------------- state
VARIABLES
    query,          \* the natural-language query handed to the operation
    pc,             \* "ready": no operation ran on the query yet; "done": one returned
    path,           \* the operation that ran: "run", "execute_query", ...
    pandas_code,    \* the code string the translator produced (NoCode when none)
    result,         \* the value the operation computed
    response,       \* the status the operation reports to its caller
    visualization,  \* the chart descriptor (chart_type, title, figure)
    data_columns,   \* columns of self.data, the cleaned table the agent was built on
    file,           \* the file at the loader's file_path: NoFile or its rows
    loaded_data,    \* CustomerShoppingDataLoader.data (None until load_data succeeds)
    cleaned_data,   \* CustomerShoppingDataLoader.cleaned_data
    returned,       \* what the last loader call gave its caller
    generator,      \* the NarrativeGenerator: its module, model_name, ai_provider
    narrative,      \* what the last generate_* call gave its caller
    dtypes,         \* the dtype of every column of self.data
    groupby_observed, \* the installed pandas groups on observed categories only
    previous,       \* the outcome of the earlier execution of the query
    config,         \* the AIConfig: its module, default_model and model table
    config_returned \* what the last AIConfig call gave its caller

translator_vars == << query, pc, path, pandas_code, result, response, visualization, data_columns >>
loader_vars == << file, loaded_data, cleaned_data, returned >>
narrative_vars == << generator, narrative >>
session_vars == << dtypes, groupby_observed, previous >>
config_vars == << config, config_returned >>

vars == << query, pc, path, pandas_code, result, response, visualization, data_columns,
           file, loaded_data, cleaned_data, returned, generator, narrative,
           dtypes, groupby_observed, previous, config, config_returned >>

\* The loader's values: no file at the path, None in place of a table, a
\* DataFrame by its rows, and the state of "returned" before any call.
NoFile == [ exists |-> FALSE, rows |-> << >> ]
NoData == [ type |-> "None", rows |-> << >> ]
Table(rows) == [ type |-> "DataFrame", rows |-> rows ]
NoReturn ==
    [ op |-> "", arg |-> "", raised |-> "", type |-> "", keys |-> {}, rows |-> << >>, groups |-> {}, title |-> "" ]

\* The model_name argument left out (None).
NoArgument == "(None)"

\* The narrative generator's values before construction and before any call.
NoGenerator ==
    [ module |-> "", requested |-> "", model_name |-> "", ai_provider |-> "", failure |-> "", raised |-> "" ]
NoNarrative == [ kind |-> "", text |-> "", detail |-> << >>, call |-> "" ]

\* The loader, or the narrative generator, takes no part in a specification.
LoaderIdle == file = NoFile /\ loaded_data = NoData /\ cleaned_data = NoData /\ returned = NoReturn
NarrativeIdle == generator = NoGenerator /\ narrative = NoNarrative

\* Columns of the table clean_data returns: the ten input columns and the derived ones.
cleaned_columns ==
    { "invoice_no", "customer_id", "gender", "age", "category", "quantity", "price",
      "payment_method", "invoice_date", "shopping_mall",
      "invoice_date_str", "month", "year", "day_of_week", "quarter",
      "total_amount", "age_group", "spending_category" }

NoCode == [ kind |-> "none", by |-> << >>, metric |-> "", agg |-> "",
            sort_desc |-> FALSE, indent |-> 0, keys |-> {}, assigns |-> "" ]

\* Python values the operations compute: None, a DataFrame (its columns, the
\* reduction that filled its value column, its sort order) and a dict (its keys).
None == [ type |-> "None", columns |-> << >>, agg |-> "", sort_desc |-> FALSE, keys |-> {} ]

DataFrame(columns, agg, sorted) ==
    [ type |-> "DataFrame", columns |-> columns, agg |-> agg, sort_desc |-> sorted, keys |-> {} ]

dict(keys) ==
    [ type |-> "dict", columns |-> << >>, agg |-> "", sort_desc |-> FALSE, keys |-> keys ]

NoViz == [ chart_type |-> "", title |-> "", figure |-> "None" ]

\* The dtype of every column of the table clean_data returns, on the dataset
\* the repository names (decimal prices): read_csv gives object, int64 and
\* float64 columns, to_datetime a datetime column, the dt accessors int32 and
\* object columns, and pd.cut categorical columns.
clean_dtypes ==
    [ c \in cleaned_columns |->
        CASE c \in { "age", "quantity" } -> "int64"
          [] c \in { "price", "total_amount" } -> "float64"
          [] c = "invoice_date" -> "datetime64[ns]"
          [] c \in { "month", "year", "quarter" } -> "int32"
          [] c \in { "age_group", "spending_category" } -> "category"
          [] OTHER -> "object" ]

\* d with column c assigned a Series of dtype t.
assign(d, c, t) == [ x \in DOMAIN d \cup { c } |-> IF x = c THEN t ELSE d[x] ]

\* The dtype of the product of two numeric columns (numpy's promotion).
result_type(a, b) ==
    IF { a, b } \subseteq { "int32", "int64" } THEN (IF "int64" \in { a, b } THEN "int64" ELSE "int32")
    ELSE IF { a, b } = { "float32" } THEN "float32"
    ELSE "float64"

\* No earlier execution of the query is on record.
NoTable == [ rows |-> "", dtypes |-> << >> ]
NoPrevious == [ path |-> "", result |-> None, table |-> NoTable ]

\* AIConfig before construction and before any call on it.
NoConfig == [ module |-> "", default_model |-> "", models |-> << >> ]
NoConfigReturn == [ op |-> "", arg |-> "", raised |-> "", names |-> << >>, model |-> << >>, available |-> FALSE ]

\* The session's table is the one clean_data returned and no query was repeated;
\* AIConfig takes no part in a specification.
SessionIdle == dtypes = clean_dtypes /\ groupby_observed = FALSE /\ previous = NoPrevious
ConfigIdle == config = NoConfig /\ config_returned = NoConfigReturn

Range(f) == { f[i] : i \in DOMAIN f }

\* Columns of df a generated statement reads.
reads(code) ==
    IF code.kind = "groupby"
    THEN Range(code.by) \cup (IF code.agg = "size" THEN {} ELSE { code.metric })
    ELSE IF code.kind = "segment" THEN { "customer_id", "total_amount", "invoice_no", "category" }
    ELSE IF code.keys = summary_block.keys
    THEN { "total_amount", "customer_id", "invoice_no", "quantity", "category", "shopping_mall" }
    ELSE { "total_amount", "customer_id" }

\* The value a statement evaluates to on a table that has the columns it reads.
evaluate(code) ==
    IF code.kind = "dict" THEN dict(code.keys)
    ELSE IF code.kind = "segment" THEN DataFrame(<<"segment", "count">>, "size", FALSE)
    ELSE DataFrame(code.by \o << code.metric >>, code.agg, code.sort_desc)

\* exec(source, globals(), local_vars) followed by local_vars.get('result').
\* prefix is the text put in front of the code ("result = " or nothing).  Python
\* compiles the source first: a first statement that starts after blanks is an
\* IndentationError.  A column the table lacks is a KeyError.
exec(code, prefix, columns) ==
    IF prefix = "" /\ code.indent > 0
    THEN [ raised |-> "IndentationError", value |-> None ]
    ELSE IF ~ (reads(code) \subseteq columns)
    THEN [ raised |-> "KeyError", value |-> None ]
    ELSE IF prefix = "result = " \/ code.assigns = "result"
    THEN [ raised |-> "", value |-> evaluate(code) ]
    ELSE [ raised |-> "", value |-> None ]

TypeOK ==
    /\ pc \in { "ready", "done" }
    /\ path \in { "", "run", "execute_query", "process_query_locally", "generate_visualization_pipeline",
                 "generate_visualization" }
    /\ query \in Seq(STRING)
    /\ data_columns \subseteq cleaned_columns \cup { "invoice_date_display" }
    /\ DOMAIN dtypes = data_columns

Init ==
    /\ query \in Queries
    /\ pc = "ready"
    /\ path = ""
    /\ pandas_code = NoCode
    /\ result = None
    /\ response = ""
    /\ visualization = NoViz
    /\ data_columns = cleaned_columns
    /\ SessionIdle
    /\ LoaderIdle
    /\ NarrativeIdle
    /\ ConfigIdle

\* What CustomerDataAnalysisTool._run returns for the outcome of its try block:
\* a fixed text, followed by str(e) or by the result, which response leaves out.
run_response(out) ==
    IF out.raised # "" THEN "Error in customer data analysis"
    ELSE IF out.value.type = "None" THEN "Analysis completed but no result was returned."
    ELSE IF out.value.type = "DataFrame" THEN "Analysis completed. Result shape"
    ELSE "Analysis completed. Result"

\* CustomerDataAnalysisTool._run: df is a copy of the data with total_amount
\* recomputed; every exception becomes an "Error in customer data analysis" string.
run ==
    /\ pc = "ready"
    /\ LET code == generate_pandas_code(query)
           out  == IF { "price", "quantity" } \subseteq data_columns
                   THEN exec(code, "", data_columns \cup { "total_amount" })
                   ELSE [ raised |-> "KeyError", value |-> None ]
       IN  /\ pandas_code' = code
           /\ result' = out.value
           /\ response' = run_response(out)
    /\ pc' = "done"
    /\ path' = "run"
    /\ UNCHANGED << query, visualization, data_columns, loader_vars, narrative_vars, session_vars, config_vars >>

\* Faulty variant: the fallback asks for a bar chart whatever the table's width.
create_figure_bar_fallback(chart_type, data) ==
    IF chart_type = "line" /\ Len(data.columns) >= 2 THEN "line"
    ELSE IF chart_type = "bar" /\ Len(data.columns) >= 2 THEN "bar"
    ELSE IF chart_type = "pie" /\ Len(data.columns) >= 2 THEN "pie"
    ELSE "bar"

\* The figure the visualizer is asked for: one per chart type when the table has
\* at least two columns, the bar fallback otherwise, None below two columns.
create_figure(chart_type, data) ==
    IF chart_type = "line" /\ Len(data.columns) >= 2 THEN "line"
    ELSE IF chart_type = "bar" /\ Len(data.columns) >= 2 THEN "bar"
    ELSE IF chart_type = "pie" /\ Len(data.columns) >= 2 THEN "pie"
    ELSE IF Len(data.columns) >= 2 THEN "bar"
    ELSE "None"

\* What the chart library does when the visualizer is asked for a figure.
Drawings == { "figure", "raises" }

\* SimpleAgenticWorkflow.generate_visualization(query, data); columns are those of
\* self.data, read by the default table.  Any exception, a missing column of the
\* default table or a failure of the chart call, gives chart_type "error".
generate_visualization(q, data, columns, drawing) ==
    LET query_lower == lower(q)
        has(kw) == contains(kw, query_lower)
        default == data.type # "DataFrame"
        table == IF default THEN DataFrame(<<"category", "total_amount">>, "sum", FALSE) ELSE data
        chart_type ==
            IF default THEN "bar"
            ELSE IF has(KW.trend) THEN "line"
            ELSE IF has(KW.category) THEN "bar"
            ELSE IF has(KW.mall) \/ has(KW.shopping) THEN "bar"
            ELSE IF has(KW.gender) THEN "bar"
            ELSE IF has(KW.age) THEN "bar"
            ELSE IF has(KW.distribution) \/ has(KW.pie) THEN "pie"
            ELSE "bar"
        title ==
            IF default THEN <<"Revenue by Category">>
            ELSE IF has(KW.trend) THEN
                IF Len(table.columns) >= 2 THEN <<"Trend Analysis: ", table.columns[2], " over time">>
                ELSE <<"Trend Analysis">>
            ELSE IF has(KW.category) THEN <<"Category Analysis">>
            ELSE IF has(KW.mall) \/ has(KW.shopping) THEN <<"Shopping Mall Analysis">>
            ELSE IF has(KW.gender) THEN <<"Gender Analysis">>
            ELSE IF has(KW.age) THEN <<"Age Group Analysis">>
            ELSE IF has(KW.distribution) \/ has(KW.pie) THEN <<"Distribution Analysis">>
            ELSE <<"Data Analysis">>
    IN  IF \/ default /\ ~ ({ "category", "total_amount" } \subseteq columns)
           \/ Len(table.columns) >= 2 /\ drawing = "raises"
        THEN [ chart_type |-> "error", title |-> <<"Error generating visualization">>, figure |-> "None" ]
        ELSE [ chart_type |-> chart_type, title |-> title, figure |-> create_figure(chart_type, table) ]

\* Column names of the tables generate_visualization is called on directly.
result_columns == <<"category", "total_amount", "quantity", "customer_id", "invoice_no">>

\* SimpleAgenticWorkflow.generate_visualization(query, data) called by itself on
\* a DataFrame of 0..MaxColumns columns (the translator's tables have two or more).
generate_visualization_on_table ==
    /\ pc = "ready"
    /\ \E k \in 0..MaxColumns, drawing \in Drawings :
           LET table == DataFrame(SubSeq(result_columns, 1, k), "sum", FALSE)
           IN  /\ result' = table
               /\ visualization' = generate_visualization(query, table, data_columns, drawing)
    /\ response' = "returned"
    /\ pc' = "done"
    /\ path' = "generate_visualization"
    /\ UNCHANGED << query, pandas_code, data_columns, loader_vars, narrative_vars, session_vars, config_vars >>

ErrorInTranslation ==
    [ kind |-> "Error in translation", by |-> << >>, metric |-> "", agg |-> "",
      sort_desc |-> FALSE, indent |-> 0, keys |-> {}, assigns |-> "" ]

\* SimpleAgenticWorkflow.execute_query: translate, exec "result = <code>" on
\* self.data, narrate (generate_query_analysis returns a string on every path),
\* visualize; any exception gives the success = False record.
execute_query ==
    /\ pc = "ready"
    /\ LET code == translate_query_to_pandas(query)
           out  == exec(code, "result = ", data_columns)
       IN  IF out.raised = ""
           THEN /\ pandas_code' = code
                /\ result' = out.value
                /\ \E drawing \in Drawings :
                       visualization' = generate_visualization(query, out.value, data_columns, drawing)
                /\ response' = "success"
           ELSE /\ pandas_code' = ErrorInTranslation
                /\ result' = None
                /\ visualization' = NoViz
                /\ response' = "failure"
    /\ pc' = "done"
    /\ path' = "execute_query"
    /\ UNCHANGED << query, data_columns, loader_vars, narrative_vars, session_vars, config_vars >>

\* A str the local processing returns, by the statistics it reports.
str(keys) ==
    [ type |-> "str", columns |-> << >>, agg |-> "", sort_desc |-> FALSE, keys |-> keys ]

\* What _process_query_locally leaves in self.data: total_amount assigned the
\* product of price and quantity, and age_group assigned the pd.cut of age in
\* the branch of 'age' and 'spending'.
local_writes(q, columns, d) ==
    LET query_lower == lower(q)
        has(kw) == contains(kw, query_lower)
        age_branch == /\ ~ (has(KW.revenue) /\ has(KW.category))
                      /\ ~ (has(KW.revenue) /\ has(KW.mall))
                      /\ ~ (has(KW.gender) /\ has(KW.spending))
                      /\ has(KW.age) /\ has(KW.spending)
    IN  IF ~ ({ "price", "quantity" } \subseteq columns) THEN d
        ELSE LET written == assign(d, "total_amount", result_type(d["price"], d["quantity"]))
             IN  IF age_branch /\ "age" \in columns THEN assign(written, "age_group", "category") ELSE written

\* CustomerShoppingAgent._process_query_locally, reached from process_query when
\* no LLM is configured.  It writes total_amount (and age_group in the age branch)
\* into self.data; a KeyError reaches process_query's handler ("Error: ...").
process_query_locally ==
    /\ pc = "ready"
    /\ LET query_lower == lower(query)
           has(kw) == contains(kw, query_lower)
           cols == data_columns \cup { "total_amount" }
           sum_by(c) == DataFrame(<< c, "total_amount" >>, "sum", FALSE)
       IN  IF ~ ({ "price", "quantity" } \subseteq data_columns)
           THEN /\ result' = None
                /\ response' = "Error"
                /\ data_columns' = data_columns
           ELSE IF has(KW.revenue) /\ has(KW.category)
           THEN /\ result' = (IF "category" \in cols THEN sum_by("category") ELSE None)
                /\ response' = (IF "category" \in cols THEN "Revenue by category analysis completed" ELSE "Error")
                /\ data_columns' = cols
           ELSE IF has(KW.revenue) /\ has(KW.mall)
           THEN /\ result' = (IF "shopping_mall" \in cols THEN sum_by("shopping_mall") ELSE None)
                /\ response' = (IF "shopping_mall" \in cols THEN "Revenue by shopping mall analysis completed" ELSE "Error")
                /\ data_columns' = cols
           ELSE IF has(KW.gender) /\ has(KW.spending)
           THEN /\ result' = (IF "gender" \in cols THEN sum_by("gender") ELSE None)
                /\ response' = (IF "gender" \in cols THEN "Spending analysis by gender completed" ELSE "Error")
                /\ data_columns' = cols
           ELSE IF has(KW.age) /\ has(KW.spending)
           THEN /\ result' = (IF "age" \in cols THEN sum_by("age_group") ELSE None)
                /\ response' = (IF "age" \in cols THEN "Spending analysis by age group completed" ELSE "Error")
                /\ data_columns' = (IF "age" \in cols THEN cols \cup { "age_group" } ELSE cols)
           ELSE IF has(KW.summary) \/ has(KW.overview)
           THEN /\ result' = str({ "total_revenue", "total_transactions", "avg_transaction" })
                /\ response' = "Customer shopping data summary"
                /\ data_columns' = cols
           ELSE /\ result' = (IF "category" \in cols THEN sum_by("category") ELSE None)
                /\ response' = (IF "category" \in cols THEN "Analysis completed. Revenue by category" ELSE "Error")
                /\ data_columns' = cols
    /\ dtypes' = local_writes(query, data_columns, dtypes)
    /\ pc' = "done"
    /\ path' = "process_query_locally"
    /\ UNCHANGED << query, pandas_code, visualization, groupby_observed, previous,
                    loader_vars, narrative_vars, config_vars >>

\* CustomerShoppingAgent.generate_visualization_pipeline: chart type and table
\* are chosen by one chain of keyword tests; nothing is caught, so a missing
\* column raises to the caller.
generate_visualization_pipeline ==
    /\ pc = "ready"
    /\ LET query_lower == lower(query)
           has(kw) == contains(kw, query_lower)
           chart_type ==
               IF has(KW.trend) THEN "line"
               ELSE IF has(KW.category) THEN "bar"
               ELSE IF has(KW.mall) \/ has(KW.shopping) THEN "bar"
               ELSE IF has(KW.gender) THEN "bar"
               ELSE IF has(KW.age) THEN "bar"
               ELSE IF has(KW.distribution) \/ has(KW.pie) THEN "pie"
               ELSE "bar"
           by ==
               IF has(KW.trend) THEN
                   IF has(KW.category) THEN <<"invoice_date", "category">> ELSE <<"invoice_date">>
               ELSE IF has(KW.category) THEN <<"category">>
               ELSE IF has(KW.mall) \/ has(KW.shopping) THEN <<"shopping_mall">>
               ELSE IF has(KW.gender) THEN <<"gender">>
               ELSE IF has(KW.age) THEN <<"age_group">>
               ELSE <<"category">>
           title ==
               IF has(KW.trend) THEN
                   IF has(KW.category) THEN <<"Revenue Trends by Category">> ELSE <<"Revenue Trend Over Time">>
               ELSE IF has(KW.category) THEN <<"Revenue by Product Category">>
               ELSE IF has(KW.mall) \/ has(KW.shopping) THEN <<"Revenue by Shopping Mall">>
               ELSE IF has(KW.gender) THEN <<"Spending by Gender">>
               ELSE IF has(KW.age) THEN <<"Spending by Age Group">>
               ELSE IF has(KW.distribution) \/ has(KW.pie) THEN <<"Revenue Distribution by Category">>
               ELSE <<"Customer Shopping Analysis">>
       IN  IF (Range(by) \cup { "total_amount" }) \subseteq data_columns
           THEN /\ result' = DataFrame(by \o <<"total_amount">>, "sum", FALSE)
                /\ visualization' = [ chart_type |-> chart_type, title |-> title, figure |-> chart_type ]
                /\ response' = "returned"
           ELSE /\ result' = None
                /\ visualization' = NoViz
                /\ response' = "KeyError"
    /\ pc' = "done"
    /\ path' = "generate_visualization_pipeline"
    /\ UNCHANGED << query, pandas_code, data_columns, loader_vars, narrative_vars, session_vars, config_vars >>

Next ==
    \/ run
    \/ execute_query
    \/ process_query_locally
    \/ generate_visualization_pipeline
    \/ generate_visualization_on_table

Spec == Init /\ [][Next]_vars

\* =================================================================== loader
\* CustomerShoppingDataLoader (src/customer_data_loader.py).  A row is a record
\* of its cells plus isnull, the set of columns whose cell is NaN (NaT for a
\* date); a null cell holds a placeholder that no operation reads.  The str
\* cell invoice_date is a sequence of one-character strings.

\* Columns of the input file.
required_columns ==
    { "invoice_no", "customer_id", "gender", "age", "category", "quantity", "price",
      "payment_method", "invoice_date", "shopping_mall" }

\* The null label of pd.cut and the null date of pd.to_datetime.
NaN == "NaN"
NaT == [ year |-> 0, month |-> 0, day |-> 0 ]

\* float('inf'): above every amount the input rows can add up to.
inf == 1000000000

digits == <<"0", "1", "2", "3", "4", "5", "6", "7", "8", "9">>
digit_of == [ c \in { digits[k] : k \in 1..Len(digits) } |-> (CHOOSE k \in 1..Len(digits) : digits[k] = c) - 1 ]

isdigit(s) == s # << >> /\ \A i \in 1..Len(s) : s[i] \in DOMAIN digit_of

\* int(s) of a str of decimal digits.
RECURSIVE int(_)
int(s) == IF s = << >> THEN 0 ELSE int(SubSeq(s, 1, Len(s) - 1)) * 10 + digit_of[s[Len(s)]]

\* s.split(sep) for a one-character separator.
RECURSIVE split(_, _)
split(s, sep) ==
    IF \A i \in 1..Len(s) : s[i] # sep THEN << s >>
    ELSE LET i == CHOOSE k \in 1..Len(s) : s[k] = sep /\ \A j \in 1..(k - 1) : s[j] # sep
         IN  << SubSeq(s, 1, i - 1) >> \o split(SubSeq(s, i + 1, Len(s)), sep)

is_leap(year) == (year % 4 = 0 /\ year % 100 # 0) \/ year % 400 = 0

days_in_month(month, year) ==
    IF month = 2 THEN (IF is_leap(year) THEN 29 ELSE 28)
    ELSE IF month \in { 4, 6, 9, 11 } THEN 30
    ELSE 31

\* pd.to_datetime(cell, format='%d/%m/%Y', errors='coerce'): day and month of
\* one or two digits, a year of four, a day the month has; anything else NaT.
to_datetime(cell) ==
    LET parts == split(cell, "/")
        shaped == /\ Len(parts) = 3
                  /\ \A k \in 1..3 : isdigit(parts[k])
                  /\ Len(parts[1]) <= 2
                  /\ Len(parts[2]) <= 2
                  /\ Len(parts[3]) = 4
        day == int(parts[1])
        month == int(parts[2])
        year == int(parts[3])
    IN  IF shaped /\ year >= 1 /\ month \in 1..12 /\ day \in 1..days_in_month(month, year)
        THEN [ year |-> year, month |-> month, day |-> day ]
        ELSE NaT

\* The decimal digits of n, padded with zeros to the given width.
RECURSIVE zfill(_, _)
zfill(n, width) ==
    IF width = 0 THEN << >> ELSE zfill(n \div 10, width - 1) \o << digits[(n % 10) + 1] >>

\* date.strftime('%Y-%m-%d')
strftime(date) == zfill(date.year, 4) \o <<"-">> \o zfill(date.month, 2) \o <<"-">> \o zfill(date.day, 2)

\* date.day_name(), by the day of the week of the Gregorian calendar.
day_name(date) ==
    LET shift == <<0, 3, 2, 5, 0, 3, 5, 1, 4, 6, 2, 4>>
        y == IF date.month < 3 THEN date.year - 1 ELSE date.year
        weekday == (y + (y \div 4) - (y \div 100) + (y \div 400) + shift[date.month] + date.day) % 7
    IN  <<"Sunday", "Monday", "Tuesday", "Wednesday", "Thursday", "Friday", "Saturday">>[weekday + 1]

quarter(date) == ((date.month - 1) \div 3) + 1

\* Faulty variant: bins closed on the left, [a, b).
cut_right_open(x, bins, labels) ==
    IF \E i \in 1..Len(labels) : bins[i] <= x /\ x < bins[i + 1]
    THEN labels[CHOOSE i \in 1..Len(labels) : bins[i] <= x /\ x < bins[i + 1]]
    ELSE NaN

\* pd.cut(x, bins=bins, labels=labels) with its defaults right=True and
\* include_lowest=False: bin i is (bins[i], bins[i+1]]; a value in no bin is NaN.
cut(x, bins, labels) ==
    IF \E i \in 1..Len(labels) : bins[i] < x /\ x <= bins[i + 1]
    THEN labels[CHOOSE i \in 1..Len(labels) : bins[i] < x /\ x <= bins[i + 1]]
    ELSE NaN

\* clean_data's age groups.
age_bins == <<0, 25, 35, 45, 55, 100>>
age_labels == <<"18-25", "26-35", "36-45", "46-55", "55+">>

\* _process_query_locally's age groups, computed again on self.data.
local_age_bins == <<0, 25, 35, 45, 55, 100>>
local_age_labels == <<"18-25", "26-35", "36-45", "46-55", "55+">>
local_age_group(age) == cut(age, local_age_bins, local_age_labels)

\* clean_data's spending categories.
spending_bins == <<0, 100, 500, 1000, 5000, inf>>
spending_labels ==
    <<"Low (<$100)", "Medium ($100-$500)", "High ($500-$1000)", "Very High ($1000-$5000)", "Premium ($5000+)">>

\* Faulty variant: edges one below, so that a sum on an edge is in the higher bucket.
segment_bins_below == <<-1, 999, 4999, 9999, inf>>

\* get_customer_segments' segments; the segment block of _generate_pandas_code
\* has the same bins and labels.
segment_bins == <<0, 1000, 5000, 10000, inf>>
segment_labels == <<"Budget", "Regular", "Premium", "VIP">>

\* Faulty variant: the amount is the unit price.
total_amount_price_only(r) == r.price

\* cleaned_data['quantity'] * cleaned_data['price']
total_amount(r) == r.quantity * r.price

\* The row clean_data derives from an input row, before dropna.
derive(r) ==
    LET date == IF "invoice_date" \in r.isnull THEN NaT ELSE to_datetime(r.invoice_date)
        no_amount == r.isnull \cap { "quantity", "price" } # {}
        amount == IF no_amount THEN 0 ELSE total_amount(r)
        age_group == IF "age" \in r.isnull THEN NaN ELSE cut(r.age, age_bins, age_labels)
        spending_category == IF no_amount THEN NaN ELSE cut(amount, spending_bins, spending_labels)
    IN  [ invoice_no |-> r.invoice_no, customer_id |-> r.customer_id, gender |-> r.gender,
          age |-> r.age, category |-> r.category, quantity |-> r.quantity, price |-> r.price,
          payment_method |-> r.payment_method, shopping_mall |-> r.shopping_mall,
          invoice_date |-> date,
          invoice_date_str |-> IF date = NaT THEN << >> ELSE strftime(date),
          month |-> date.month,
          year |-> date.year,
          day_of_week |-> IF date = NaT THEN NaN ELSE day_name(date),
          quarter |-> IF date = NaT THEN 0 ELSE quarter(date),
          total_amount |-> amount,
          age_group |-> age_group,
          spending_category |-> spending_category,
          isnull |-> (r.isnull \ { "invoice_date" })
                     \cup (IF date = NaT
                           THEN { "invoice_date", "invoice_date_str", "month", "year", "day_of_week", "quarter" }
                           ELSE {})
                     \cup (IF no_amount THEN { "total_amount" } ELSE {})
                     \cup (IF age_group = NaN THEN { "age_group" } ELSE {})
                     \cup (IF spending_category = NaN THEN { "spending_category" } ELSE {}) ]

\* DataFrame.dropna(): the rows without a null cell, in their order.
dropna(rows) == SelectSeq(rows, LAMBDA r : r.isnull = {})

\* sum(), nunique() and one column of a table.
RECURSIVE sum(_)
sum(values) == IF values = << >> THEN 0 ELSE Head(values) + sum(Tail(values))

nunique(values) == Cardinality({ values[i] : i \in DOMAIN values })

column(rows, c) == [ i \in 1..Len(rows) |-> rows[i][c] ]

\* The rows of one group; groupby leaves out the rows whose key is null.
group_rows(rows, key, value) == SelectSeq(rows, LAMBDA r : key \notin r.isnull /\ r[key] = value)

group_keys(rows, key) == { rows[i][key] : i \in { j \in 1..Len(rows) : key \notin rows[j].isnull } }

\* Faulty variant: each group reports its first row instead of its sum.
viz_data_first(rows, group_by, observed) ==
    LET keys == group_keys(rows, group_by)
                \cup (IF group_by = "age_group" /\ ~ observed
                      THEN { age_labels[i] : i \in 1..Len(age_labels) } ELSE {})
    IN  { LET g == group_rows(rows, group_by, k)
          IN  [ key |-> k,
                total_amount |-> IF g = << >> THEN 0 ELSE g[1].total_amount,
                quantity |-> IF g = << >> THEN 0 ELSE g[1].quantity,
                customer_id |-> nunique(column(g, "customer_id")),
                invoice_no |-> nunique(column(g, "invoice_no")) ] : k \in keys }

\* cleaned_data.groupby(group_by).agg({total_amount: sum, quantity: sum,
\* customer_id: nunique, invoice_no: nunique}).reset_index(), as the set of its
\* rows.  age_group is categorical: with observed=False (the default of pandas
\* before 3.0) each label has a row, with observed=True only the labels present.
viz_data(rows, group_by, observed) ==
    LET keys == group_keys(rows, group_by)
                \cup (IF group_by = "age_group" /\ ~ observed
                      THEN { age_labels[i] : i \in 1..Len(age_labels) } ELSE {})
    IN  { LET g == group_rows(rows, group_by, k)
          IN  [ key |-> k,
                total_amount |-> sum(column(g, "total_amount")),
                quantity |-> sum(column(g, "quantity")),
                customer_id |-> nunique(column(g, "customer_id")),
                invoice_no |-> nunique(column(g, "invoice_no")) ] : k \in keys }

valid_groups == { "category", "shopping_mall", "gender", "age_group", "payment_method" }

\* f"Customer Shopping Analysis by {group_by.replace('_', ' ').title()}"
title_of ==
    [ g \in valid_groups |->
        IF g = "category" THEN "Customer Shopping Analysis by Category"
        ELSE IF g = "shopping_mall" THEN "Customer Shopping Analysis by Shopping Mall"
        ELSE IF g = "gender" THEN "Customer Shopping Analysis by Gender"
        ELSE IF g = "age_group" THEN "Customer Shopping Analysis by Age Group"
        ELSE "Customer Shopping Analysis by Payment Method" ]

\* Faulty variant: the roll-up is taken per invoice.
customer_segments_per_invoice(rows) ==
    { LET g == group_rows(rows, "invoice_no", k)
          total == sum(column(g, "total_amount"))
      IN  [ customer_id |-> g[1].customer_id,
            total_amount |-> total,
            invoice_no |-> nunique(column(g, "invoice_no")),
            category |-> nunique(column(g, "category")),
            shopping_mall |-> nunique(column(g, "shopping_mall")),
            segment |-> cut(total, segment_bins, segment_labels) ] : k \in group_keys(rows, "invoice_no") }

\* The per-customer roll-up of get_customer_segments with its segment.
customer_segments(rows) ==
    { LET g == group_rows(rows, "customer_id", k)
          total == sum(column(g, "total_amount"))
      IN  [ customer_id |-> k,
            total_amount |-> total,
            invoice_no |-> nunique(column(g, "invoice_no")),
            category |-> nunique(column(g, "category")),
            shopping_mall |-> nunique(column(g, "shopping_mall")),
            segment |-> cut(total, segment_bins, segment_labels) ] : k \in group_keys(rows, "customer_id") }

\* Keys of the dict get_basic_stats builds.
stats_keys ==
    { "total_records", "date_range", "total_customers", "total_invoices", "shopping_malls",
      "categories", "payment_methods", "total_revenue", "total_quantity",
      "average_transaction_value", "average_age", "gender_distribution" }

\* ------------------------------------------------------------- input rows
base_row ==
    [ invoice_no |-> "I1", customer_id |-> "C1", gender |-> "Female", age |-> 28,
      category |-> "Clothing", quantity |-> 1, price |-> 500, payment_method |-> "Cash",
      invoice_date |-> <<"5", "/", "8", "/", "2", "0", "2", "2">>, shopping_mall |-> "Kanyon",
      isnull |-> {} ]

\* Input rows at and around the edges of the bins, with zero and negative
\* factors, with dates that do and do not read as DD/MM/YYYY, and with empty cells.
sample_rows ==
    << base_row,
      [ base_row EXCEPT !.invoice_no = "I2", !.age = 25, !.price = 100,
                        !.invoice_date = <<"2", "9", "/", "0", "2", "/", "2", "0", "2", "4">> ],
      [ base_row EXCEPT !.invoice_no = "I3", !.customer_id = "C2", !.gender = "Male", !.age = 26,
                        !.category = "Shoes", !.price = 1000, !.payment_method = "Credit Card" ],
      [ base_row EXCEPT !.invoice_no = "I4", !.customer_id = "C3", !.age = 55, !.price = 5000,
                        !.shopping_mall = "Metrocity" ],
      [ base_row EXCEPT !.invoice_no = "I5", !.customer_id = "C4", !.age = 56, !.quantity = 2, !.price = 5000 ],
      [ base_row EXCEPT !.invoice_no = "I6", !.age = 100 ],
      [ base_row EXCEPT !.invoice_no = "I7", !.age = 0 ],
      [ base_row EXCEPT !.invoice_no = "I8", !.age = 101 ],
      [ base_row EXCEPT !.invoice_no = "I9", !.quantity = 0 ],
      [ base_row EXCEPT !.invoice_no = "I10", !.quantity = -1 ],
      [ base_row EXCEPT !.invoice_no = "I11", !.quantity = -1, !.price = -500 ],
      [ base_row EXCEPT !.invoice_no = "I12",
                        !.invoice_date = <<"2", "0", "2", "2", "-", "0", "8", "-", "0", "5">> ],
      [ base_row EXCEPT !.invoice_no = "I13",
                        !.invoice_date = <<"2", "9", "/", "0", "2", "/", "2", "0", "2", "3">> ],
      [ base_row EXCEPT !.invoice_no = "I14", !.age = 0, !.isnull = { "age" } ],
      [ base_row EXCEPT !.invoice_no = "I15", !.category = "", !.isnull = { "category" } ],
      [ base_row EXCEPT !.invoice_no = "I16", !.invoice_date = << >>, !.isnull = { "invoice_date" } ] >>

\* The tables of up to n input rows, each by the places of its rows in
\* sample_rows.  No operation of the loader depends on the order of the rows
\* (clean_data keeps it), so the rows are taken in the order of sample_rows;
\* a row may occur more than once.
RECURSIVE Tables(_)
Tables(n) ==
    IF n = 0 THEN { << >> }
    ELSE LET shorter == Tables(n - 1)
         IN  shorter \cup
             UNION { { Append(f, i) : i \in (IF f = << >> THEN 1 ELSE f[Len(f)])..Len(sample_rows) }
                     : f \in { g \in shorter : Len(g) = n - 1 } }

\* The files read_csv can find at the path: tables of up to MaxRows input rows.
Files ==
    { [ exists |-> TRUE, rows |-> [ i \in 1..Len(sel) |-> sample_rows[sel[i]] ] ] : sel \in Tables(MaxRows) }

\* What a loader call gives its caller.
Return(op, type, rows) ==
    [ op |-> op, arg |-> "", raised |-> "", type |-> type, keys |-> {}, rows |-> rows, groups |-> {}, title |-> "" ]

\* ------------------------------------------------------------ loader calls
\* Faulty variant: a failed load forgets the tables of an earlier load.
load_data_resets ==
    /\ IF file.exists
       THEN /\ loaded_data' = Table(file.rows)
            /\ cleaned_data' = cleaned_data
            /\ returned' = Return("load_data", "DataFrame", file.rows)
       ELSE /\ loaded_data' = NoData
            /\ cleaned_data' = NoData
            /\ returned' = Return("load_data", "None", << >>)
    /\ UNCHANGED << file, translator_vars, narrative_vars, session_vars, config_vars >>

\* Faulty variant: a missing file reads as a table without rows.
load_data_empty_table ==
    /\ loaded_data' = Table(file.rows)
    /\ returned' = Return("load_data", "DataFrame", file.rows)
    /\ UNCHANGED << file, cleaned_data, translator_vars, narrative_vars, session_vars, config_vars >>

\* load_data: read_csv into self.data; FileNotFoundError (and any other
\* exception) is caught and printed, and None is returned.
load_data ==
    /\ IF file.exists
       THEN /\ loaded_data' = Table(file.rows)
            /\ returned' = Return("load_data", "DataFrame", file.rows)
       ELSE /\ loaded_data' = loaded_data
            /\ returned' = Return("load_data", "None", << >>)
    /\ UNCHANGED << file, cleaned_data, translator_vars, narrative_vars, session_vars, config_vars >>

\* The table clean_data builds from self.data.
cleaned(rows) == dropna([ i \in 1..Len(rows) |-> derive(rows[i]) ])

\* Faulty variant: the rows with an empty cell are dropped from self.data itself.
clean_data_in_place ==
    /\ IF loaded_data.type = "None"
       THEN /\ cleaned_data' = cleaned_data
            /\ loaded_data' = loaded_data
            /\ returned' = Return("clean_data", "None", << >>)
       ELSE /\ cleaned_data' = Table(cleaned(loaded_data.rows))
            /\ loaded_data' = Table(SelectSeq(loaded_data.rows, LAMBDA r : r.isnull = {}))
            /\ returned' = Return("clean_data", "DataFrame", cleaned(loaded_data.rows))
    /\ UNCHANGED << file, translator_vars, narrative_vars, session_vars, config_vars >>

\* clean_data: None without loaded data; otherwise the derived columns are
\* added to a copy and the rows with a null cell dropped.
clean_data ==
    /\ IF loaded_data.type = "None"
       THEN /\ cleaned_data' = cleaned_data
            /\ returned' = Return("clean_data", "None", << >>)
       ELSE /\ cleaned_data' = Table(cleaned(loaded_data.rows))
            /\ returned' = Return("clean_data", "DataFrame", cleaned(loaded_data.rows))
    /\ UNCHANGED << file, loaded_data, translator_vars, narrative_vars, session_vars, config_vars >>

\* get_basic_stats: {} without cleaned data.  On a cleaned table without rows
\* invoice_date.min() is NaT and NaT.strftime raises ValueError.
get_basic_stats ==
    /\ returned' =
         IF cleaned_data.type = "None" THEN [ Return("get_basic_stats", "dict", << >>) EXCEPT !.keys = {} ]
         ELSE IF cleaned_data.rows = << >>
         THEN [ Return("get_basic_stats", "", << >>) EXCEPT !.raised = "ValueError" ]
         ELSE [ Return("get_basic_stats", "dict", << >>) EXCEPT !.keys = stats_keys ]
    /\ UNCHANGED << file, loaded_data, cleaned_data, translator_vars, narrative_vars, session_vars, config_vars >>

\* get_data_for_visualization(group_by): (None, "") without cleaned data or for
\* a group_by outside valid_groups.
get_data_for_visualization ==
    /\ \E group_by \in valid_groups \cup { "customer_id" }, observed \in BOOLEAN :
          returned' =
             IF cleaned_data.type = "None" \/ group_by \notin valid_groups
             THEN [ Return("get_data_for_visualization", "None", << >>) EXCEPT !.arg = group_by ]
             ELSE [ Return("get_data_for_visualization", "DataFrame", << >>) EXCEPT
                      !.arg = group_by,
                      !.groups = viz_data(cleaned_data.rows, group_by, observed),
                      !.title = title_of[group_by] ]
    /\ UNCHANGED << file, loaded_data, cleaned_data, translator_vars, narrative_vars, session_vars, config_vars >>

\* get_customer_segments: None without cleaned data.
get_customer_segments ==
    /\ returned' =
         IF cleaned_data.type = "None" THEN Return("get_customer_segments", "None", << >>)
         ELSE [ Return("get_customer_segments", "DataFrame", << >>) EXCEPT
                  !.groups = customer_segments(cleaned_data.rows) ]
    /\ UNCHANGED << file, loaded_data, cleaned_data, translator_vars, narrative_vars, session_vars, config_vars >>

\* load_and_prepare_customer_data(file_path): a new loader, load_data, then
\* clean_data; returns (loader, cleaned_data).
load_and_prepare_customer_data ==
    /\ loaded_data' = IF file.exists THEN Table(file.rows) ELSE NoData
    /\ cleaned_data' = IF file.exists THEN Table(cleaned(file.rows)) ELSE NoData
    /\ returned' = IF file.exists
                   THEN Return("load_and_prepare_customer_data", "DataFrame", cleaned(file.rows))
                   ELSE Return("load_and_prepare_customer_data", "None", << >>)
    /\ UNCHANGED << file, translator_vars, narrative_vars, session_vars, config_vars >>

\* The accessors that return one summary table: get_summary_by_category,
\* get_summary_by_mall, get_summary_by_gender, get_time_series_data,
\* get_age_group_analysis, get_payment_method_analysis, each by its group key.
summary_key ==
    [ get_summary_by_category |-> "category",
      get_summary_by_mall |-> "shopping_mall",
      get_summary_by_gender |-> "gender",
      get_time_series_data |-> "invoice_date",
      get_age_group_analysis |-> "age_group",
      get_payment_method_analysis |-> "payment_method" ]

\* One of the six summary accessors: None without cleaned data, otherwise
\* cleaned_data.groupby(key).agg(...); of its columns the sums of total_amount
\* and quantity and the distinct customers and invoices are kept.
get_summary ==
    /\ \E name \in DOMAIN summary_key, observed \in BOOLEAN :
          returned' =
             IF cleaned_data.type = "None" THEN Return(name, "None", << >>)
             ELSE [ Return(name, "DataFrame", << >>) EXCEPT
                      !.arg = summary_key[name],
                      !.groups = viz_data(cleaned_data.rows, summary_key[name], observed) ]
    /\ UNCHANGED << file, loaded_data, cleaned_data, translator_vars, narrative_vars, session_vars, config_vars >>

\* The file at the path is removed (or renamed) between two calls.
file_removed ==
    /\ file.exists
    /\ file' = NoFile
    /\ returned' = Return("file_removed", "", << >>)
    /\ UNCHANGED << loaded_data, cleaned_data, translator_vars, narrative_vars, session_vars, config_vars >>

\* The translator takes no part in a specification.
TranslatorIdle ==
    /\ query = << >>
    /\ pc = "done"
    /\ path = ""
    /\ pandas_code = NoCode
    /\ result = None
    /\ response = ""
    /\ visualization = NoViz
    /\ data_columns = cleaned_columns
    /\ SessionIdle

LoaderInit ==
    /\ file \in { NoFile } \cup Files
    /\ loaded_data = NoData
    /\ cleaned_data = NoData
    /\ returned = NoReturn
    /\ TranslatorIdle
    /\ NarrativeIdle
    /\ ConfigIdle

LoaderNext ==
    \/ load_data
    \/ clean_data
    \/ get_basic_stats
    \/ get_data_for_visualization
    \/ get_customer_segments
    \/ load_and_prepare_customer_data
    \/ get_summary
    \/ file_removed

LoaderSpec == LoaderInit /\ [][LoaderNext]_vars

\* ================================================================ narrative
\* NarrativeGenerator (core/ai/generator.py and src/narrative_generator.py) over
\* AIProvider (src/ai_provider.py).  A narrative is recorded by what it is: the
\* local template of its kind, the text the service generated, or an error message.

\* What the external text-generation service does with one request.
Outcomes == { "text", "timeout", "auth", "quota", "network" }

\* What NarrativeGenerator.__init__ meets outside the code: the client package
\* installed or not, GOOGLE_API_KEY set or not, and the client constructor
\* (OpenAI, genai.configure, GenerativeModel) returning or raising.
Environments ==
    [ package : { "installed", "missing" }, GOOGLE_API_KEY : BOOLEAN, client : { "ok", "raises" } ]

requested_models == { NoArgument, "", "local", "gemini", "gpt", "llama" }

\* The exceptions "except Exception" catches.
Exception == { "ImportError", "Exception" }

\* AIProvider.__init__: _init_openai and _init_gemini import the package and
\* build the client, raising ImportError or Exception; 'local' and every other
\* name build nothing.
AIProvider(model_name, env) ==
    IF model_name \in { "gpt", "gemini" } /\ env.package = "missing"
    THEN [ raised |-> "ImportError", ai_provider |-> "" ]
    ELSE IF model_name \in { "gpt", "gemini" } /\ env.client = "raises"
    THEN [ raised |-> "Exception", ai_provider |-> "" ]
    ELSE [ raised |-> "", ai_provider |-> "AIProvider" ]

\* NarrativeGenerator.__init__ catching ImportError only.
NarrativeGenerator_except_ImportError(module, requested, env) ==
    LET model_name == IF requested \in { NoArgument, "" } THEN "local" ELSE requested
        made(name, provider, failure, raised) ==
            [ module |-> module, requested |-> requested, model_name |-> name,
              ai_provider |-> provider, failure |-> failure, raised |-> raised ]
        attempt ==
            IF model_name = "local"
            THEN made("local", "None", "", "")
            ELSE IF module = "core/ai/generator.py" /\ model_name = "gemini"
            THEN IF env.package = "missing" THEN made(model_name, "", "", "ImportError")
                 ELSE IF ~ env.GOOGLE_API_KEY THEN made("local", "None", "no GOOGLE_API_KEY", "")
                 ELSE IF env.client = "raises" THEN made(model_name, "", "", "Exception")
                 ELSE made(model_name, "genai", "", "")
            ELSE LET provider == AIProvider(model_name, env)
                 IN  made(model_name, provider.ai_provider, "", provider.raised)
    IN  IF attempt.raised = "ImportError"
        THEN made("local", "None", attempt.raised, "")
        ELSE attempt

\* NarrativeGenerator.__init__ of either module: model_name or 'local'; None
\* for 'local'; core/ai/generator.py keeps the google.generativeai module
\* itself as ai_provider for 'gemini' and goes local without GOOGLE_API_KEY;
\* AIProvider(model_name) for the rest; every Exception ends in local mode.
NarrativeGenerator(module, requested, env) ==
    LET model_name == IF requested \in { NoArgument, "" } THEN "local" ELSE requested
        made(name, provider, failure, raised) ==
            [ module |-> module, requested |-> requested, model_name |-> name,
              ai_provider |-> provider, failure |-> failure, raised |-> raised ]
        attempt ==
            IF model_name = "local"
            THEN made("local", "None", "", "")
            ELSE IF module = "core/ai/generator.py" /\ model_name = "gemini"
            THEN IF env.package = "missing" THEN made(model_name, "", "", "ImportError")
                 ELSE IF ~ env.GOOGLE_API_KEY THEN made("local", "None", "no GOOGLE_API_KEY", "")
                 ELSE IF env.client = "raises" THEN made(model_name, "", "", "Exception")
                 ELSE made(model_name, "genai", "", "")
            ELSE LET provider == AIProvider(model_name, env)
                 IN  made(model_name, provider.ai_provider, "", provider.raised)
    IN  IF attempt.raised \in Exception
        THEN made("local", "None", attempt.raised, "")
        ELSE attempt

\* The generators __init__ can leave behind.
Generators ==
    { NarrativeGenerator(module, requested, env) :
        module \in { "core/ai/generator.py", "src/narrative_generator.py" },
        requested \in requested_models, env \in Environments }

\* AIProvider.generate_text: dispatch on model_name inside try; every exception,
\* the service's failures included, is returned as an "Error generating text
\* with <model>: ..." string.  call tells whether the service was asked and failed.
generate_text(model_name, outcome) ==
    IF model_name \in { "gpt", "gemini" }
    THEN IF outcome = "text"
         THEN [ raised |-> FALSE, text |-> "generated text", detail |-> << >>, call |-> "answered" ]
         ELSE [ raised |-> FALSE, text |-> "error message",
                detail |-> <<"Error generating text with", model_name, outcome>>, call |-> "failed" ]
    ELSE IF model_name = "local"
    THEN [ raised |-> FALSE, text |-> "local template", detail |-> << >>, call |-> "" ]
    ELSE [ raised |-> FALSE, text |-> "error message",
           detail |-> <<"Error generating text with", model_name, "Unsupported model">>, call |-> "" ]

\* The body each generate_* method shares: the local template when ai_provider
\* is None (src/narrative_generator.py tests that in generate_query_analysis
\* only), else ai_provider.generate_text(prompt, system_prompt); the except
\* branch returns the local template in generate_query_analysis and an
\* "Error generating ..." string in the other four.
generate(kind, outcome) ==
    LET tests_none == generator.module = "core/ai/generator.py" \/ kind = "query_analysis"
        attempt ==
            IF generator.ai_provider = "None"
            THEN IF tests_none
                 THEN [ raised |-> FALSE, text |-> "local template", detail |-> << >>, call |-> "" ]
                 ELSE [ raised |-> TRUE, text |-> "", detail |-> <<"AttributeError">>, call |-> "" ]
            ELSE IF generator.ai_provider = "genai"
            THEN [ raised |-> TRUE, text |-> "", detail |-> <<"generate_text">>, call |-> "" ]
            ELSE generate_text(generator.model_name, outcome)
    IN  IF ~ attempt.raised
        THEN [ kind |-> kind, text |-> attempt.text, detail |-> attempt.detail, call |-> attempt.call ]
        ELSE IF kind = "query_analysis"
        THEN [ kind |-> kind, text |-> "local template", detail |-> << >>, call |-> attempt.call ]
        ELSE [ kind |-> kind, text |-> "error message",
               detail |-> <<"Error generating", kind>> \o attempt.detail, call |-> attempt.call ]

generate_dataset_summary ==
    /\ generator.ai_provider # ""
    /\ \E outcome \in Outcomes : narrative' = generate("dataset_summary", outcome)
    /\ UNCHANGED << generator, translator_vars, loader_vars, session_vars, config_vars >>

generate_visualization_insights ==
    /\ generator.ai_provider # ""
    /\ \E outcome \in Outcomes : narrative' = generate("visualization_insight", outcome)
    /\ UNCHANGED << generator, translator_vars, loader_vars, session_vars, config_vars >>

generate_query_analysis ==
    /\ generator.ai_provider # ""
    /\ \E outcome \in Outcomes : narrative' = generate("query_analysis", outcome)
    /\ UNCHANGED << generator, translator_vars, loader_vars, session_vars, config_vars >>

generate_trend_analysis ==
    /\ generator.ai_provider # ""
    /\ \E outcome \in Outcomes : narrative' = generate("trend_analysis", outcome)
    /\ UNCHANGED << generator, translator_vars, loader_vars, session_vars, config_vars >>

generate_comparative_analysis ==
    /\ generator.ai_provider # ""
    /\ \E outcome \in Outcomes : narrative' = generate("comparative_analysis", outcome)
    /\ UNCHANGED << generator, translator_vars, loader_vars, session_vars, config_vars >>

\* narrative_gen = NarrativeGenerator(model_name), in either module.
construct ==
    /\ \E module \in { "core/ai/generator.py", "src/narrative_generator.py" },
          requested \in requested_models, env \in Environments :
         generator' = NarrativeGenerator(module, requested, env)
    /\ narrative' = NoNarrative
    /\ UNCHANGED << translator_vars, loader_vars, session_vars, config_vars >>

\* initialize_ai_components (streamlit_app_simple.py): NarrativeGenerator of
\* src/narrative_generator.py on the selected model, NarrativeGenerator('local')
\* when that raises.
initialize_ai_components ==
    /\ \E selected_model \in requested_models \ { NoArgument }, env \in Environments :
         LET narrative_gen == NarrativeGenerator("src/narrative_generator.py", selected_model, env)
         IN  generator' = IF narrative_gen.raised = ""
                          THEN narrative_gen
                          ELSE NarrativeGenerator("src/narrative_generator.py", "local", env)
    /\ narrative' = NoNarrative
    /\ UNCHANGED << translator_vars, loader_vars, session_vars, config_vars >>

NarrativeInit ==
    /\ generator = NoGenerator
    /\ narrative = NoNarrative
    /\ TranslatorIdle
    /\ LoaderIdle
    /\ ConfigIdle

NarrativeNext ==
    \/ construct
    \/ initialize_ai_components
    \/ generate_dataset_summary
    \/ generate_visualization_insights
    \/ generate_query_analysis
    \/ generate_trend_analysis
    \/ generate_comparative_analysis

NarrativeSpec == NarrativeInit /\ [][NarrativeNext]_vars

\* =================================================================== config
\* AIConfig (config.py and core/utils/config.py): the model table built from the
\* environment at construction, and the calls that read it or move default_model.

\* str.strip: the string without its leading and trailing whitespace.
RECURSIVE lstrip(_)
lstrip(s) == IF s # << >> /\ Head(s) = " " THEN lstrip(Tail(s)) ELSE s

RECURSIVE rstrip(_)
rstrip(s) == IF s # << >> /\ s[Len(s)] = " " THEN rstrip(SubSeq(s, 1, Len(s) - 1)) ELSE s

strip(s) == rstrip(lstrip(s))

\* An environment variable is unset (<< >>) or set to a string (<< value >>);
\* API keys as strings of characters, model names as whole strings.
Unset == << >>
ApiKeys == { << >>, << " " >>, << "k", "e", "y" >>, << " ", "k" >> }
EnvKeys == { Unset } \cup { << k >> : k \in ApiKeys }
SecretKeys == { << >>, << "s", "e", "c", "r", "e", "t" >> }
ModelNames == { "gpt", "gemini", "local", "claude", "GPT", "" }
EnvModels == { Unset } \cup { << name >> : name \in ModelNames }
known_models == << "gpt", "gemini", "local" >>

\* The api_key of the local model (None) and the key config.py falls back to.
NoKey == << "None" >>
built_in_key == << "b", "u", "i", "l", "t", "-", "i", "n" >>

\* os.getenv(key, default).
getenv(env, default) == IF env = Unset THEN default ELSE env[1]

\* AIConfig._get_secret (core/utils/config.py): the environment variable when
\* it is non-empty, else the Streamlit secret, else ''.
get_secret(env, secret) ==
    LET value == getenv(env, << >>)
    IN  IF value # << >> THEN value ELSE secret

\* The API key AIConfig.__init__ reads, in either module.
api_key(module, env, secret) ==
    IF module = "core/utils/config.py" THEN get_secret(env, secret) ELSE getenv(env, built_in_key)

\* bool(key and key.strip()) in core/utils/config.py, bool(key) in config.py.
enabled(module, key) ==
    IF module = "core/utils/config.py" THEN key # << >> /\ strip(key) # << >> ELSE key # << >>

\* AIConfig._setup_models: default_model from DEFAULT_AI_MODEL and the table of
\* the three models, local always enabled.
setup_models(module, openai_api_key, gemini_api_key, env_model) ==
    [ module |-> module,
      default_model |-> getenv(env_model, "gemini"),
      models |->
        [ name \in Range(known_models) |->
            CASE name = "gpt" ->
                   [ provider |-> "openai", api_key |-> openai_api_key, enabled |-> enabled(module, openai_api_key) ]
              [] name = "gemini" ->
                   [ provider |-> "google", api_key |-> gemini_api_key, enabled |-> enabled(module, gemini_api_key) ]
              [] OTHER ->
                   [ provider |-> "local", api_key |-> NoKey, enabled |-> TRUE ] ] ]

\* AIConfig.is_model_available.
is_model_available(model_name) ==
    model_name \in DOMAIN config.models /\ config.models[model_name].enabled

ConfigReturn(op, arg) == [ NoConfigReturn EXCEPT !.op = op, !.arg = arg ]

\* AIConfig.get_model_config: model_name or default_model, looked up with the
\* local configuration as the fallback.
get_model_config ==
    /\ \E arg \in ModelNames \cup { NoArgument } :
         LET model_name == IF arg \in { NoArgument, "" } THEN config.default_model ELSE arg
         IN  config_returned' =
                [ ConfigReturn("get_model_config", arg) EXCEPT
                    !.model = IF model_name \in DOMAIN config.models
                              THEN << config.models[model_name] >>
                              ELSE << config.models["local"] >> ]
    /\ UNCHANGED << config, translator_vars, session_vars, loader_vars, narrative_vars >>

\* AIConfig.get_available_models: the enabled names, in the table's order.
get_available_models ==
    /\ config_returned' =
         [ ConfigReturn("get_available_models", NoArgument) EXCEPT
             !.names = SelectSeq(known_models, LAMBDA name : config.models[name].enabled) ]
    /\ UNCHANGED << config, translator_vars, session_vars, loader_vars, narrative_vars >>

\* A caller asks is_model_available.
ask_is_model_available ==
    /\ \E arg \in ModelNames :
         config_returned' = [ ConfigReturn("is_model_available", arg) EXCEPT !.available = is_model_available(arg) ]
    /\ UNCHANGED << config, translator_vars, session_vars, loader_vars, narrative_vars >>

\* set_default_model taking every known name, enabled or not.
set_default_model_any_known ==
    /\ \E arg \in ModelNames :
         IF arg \in DOMAIN config.models
         THEN /\ config' = [ config EXCEPT !.default_model = arg ]
              /\ config_returned' = ConfigReturn("set_default_model", arg)
         ELSE /\ config' = config
              /\ config_returned' = [ ConfigReturn("set_default_model", arg) EXCEPT !.raised = "ValueError" ]
    /\ UNCHANGED << translator_vars, session_vars, loader_vars, narrative_vars >>

\* AIConfig.set_default_model: default_model moves to an available model, and
\* ValueError is raised for any other name.
set_default_model ==
    /\ \E arg \in ModelNames :
         IF is_model_available(arg)
         THEN /\ config' = [ config EXCEPT !.default_model = arg ]
              /\ config_returned' = ConfigReturn("set_default_model", arg)
         ELSE /\ config' = config
              /\ config_returned' = [ ConfigReturn("set_default_model", arg) EXCEPT !.raised = "ValueError" ]
    /\ UNCHANGED << translator_vars, session_vars, loader_vars, narrative_vars >>

\* config = AIConfig() at import, in every environment.
ConfigInit ==
    /\ \E module \in { "config.py", "core/utils/config.py" }, env_openai \in EnvKeys, env_gemini \in EnvKeys,
          secret_openai \in SecretKeys, secret_gemini \in SecretKeys, env_model \in EnvModels :
         config = setup_models(module, api_key(module, env_openai, secret_openai),
                               api_key(module, env_gemini, secret_gemini), env_model)
    /\ config_returned = NoConfigReturn
    /\ TranslatorIdle
    /\ LoaderIdle
    /\ NarrativeIdle

ConfigNext ==
    \/ get_model_config
    \/ get_available_models
    \/ ask_is_model_available
    \/ set_default_model

ConfigSpec == ConfigInit /\ [][ConfigNext]_vars

\* ================================================================== session
\* One session on one table: the cached page loader of streamlit_app_simple.py,
\* the query operations in any order, and a query executed a second time after
\* other queries.

\* Most words of a query of a session.
MaxSessionWords == 2

SessionQueries ==
    { join([ i \in 1..Len(sel) |-> Vocabulary[sel[i]] ]) : sel \in Selections(MaxSessionWords) }
      \cup { queries[i] : i \in 1..Len(queries) }
      \cup { inside_word_queries[i][1] : i \in 1..Len(inside_word_queries) }

\* The dtypes of the table load_data returns (read_csv; invoice_date is text).
loaded_dtypes ==
    [ c \in required_columns |-> IF c = "invoice_date" THEN "object" ELSE clean_dtypes[c] ]

\* The table an operation reads: _run works on a copy of self.data with
\* total_amount recomputed from price and quantity, execute_query on self.data.
table_read(operation, columns, d) ==
    IF operation = "run" /\ { "price", "quantity" } \subseteq columns
    THEN assign(d, "total_amount", result_type(d["price"], d["quantity"]))
    ELSE d

\* A result table beyond its columns: its rows and the dtype of each column.
\* groupby on a categorical key gives a row to every category unless pandas
\* groups on observed categories only (the default from pandas 3.0 on), and on
\* any other key to the groups present; the session's table is one in which
\* some category of the key does not occur.  A key column and a sum or mean
\* of a float column keep the dtype of the column read (integer widths are
\* left out).
result_table(value, d, on_observed) ==
    IF value.type # "DataFrame" THEN NoTable
    ELSE [ rows |->
             IF /\ ~ on_observed
                /\ \E i \in 1..(Len(value.columns) - 1) :
                       value.columns[i] \in DOMAIN d /\ d[value.columns[i]] = "category"
             THEN "every category"
             ELSE "groups present",
           dtypes |->
             [ i \in 1..Len(value.columns) |->
                 IF value.columns[i] \notin DOMAIN d THEN ""
                 ELSE IF d[value.columns[i]] \in { "int32", "int64" } THEN "int"
                 ELSE d[value.columns[i]] ] ]

\* load_data of streamlit_app_simple.py (st.cache_data): on the table
\* load_and_prepare_customer_data returned it adds invoice_date_display, makes
\* the six categorical columns 'string' and narrows int64 and float64 columns
\* of the seven numeric ones to int32 and float32, in place.
page_load_data ==
    /\ pc = "ready"
    /\ previous = NoPrevious
    /\ data_columns = cleaned_columns /\ dtypes = clean_dtypes
    /\ data_columns' = data_columns \cup { "invoice_date_display" }
    /\ dtypes' =
         [ c \in data_columns \cup { "invoice_date_display" } |->
             IF c = "invoice_date_display" THEN "object"
             ELSE IF c \in { "shopping_mall", "category", "payment_method", "gender", "age_group", "spending_category" }
             THEN "string"
             ELSE IF c \in { "quantity", "price", "total_amount", "age", "month", "year", "quarter" }
             THEN (IF dtypes[c] = "int64" THEN "int32" ELSE IF dtypes[c] = "float64" THEN "float32" ELSE dtypes[c])
             ELSE dtypes[c] ]
    /\ UNCHANGED << query, pc, path, pandas_code, result, response, visualization, groupby_observed, previous,
                    loader_vars, narrative_vars, config_vars >>

\* After _run or execute_query returned: the caller keeps the result, the
\* agent processes none or one of its predefined analysis queries locally (by
\* what that leaves in the table), and the same query is submitted again.
again ==
    /\ pc = "done"
    /\ path \in { "run", "execute_query" }
    /\ previous = NoPrevious
    /\ previous' = [ path |-> path, result |-> result,
                     table |-> result_table(result, table_read(path, data_columns, dtypes), groupby_observed) ]
    /\ \/ dtypes' = dtypes
       \/ \E i \in 1..Len(queries) : dtypes' = local_writes(queries[i], data_columns, dtypes)
    /\ data_columns' = DOMAIN dtypes'
    /\ pc' = "ready"
    /\ path' = ""
    /\ pandas_code' = NoCode
    /\ result' = None
    /\ response' = ""
    /\ visualization' = NoViz
    /\ UNCHANGED << query, groupby_observed, loader_vars, narrative_vars, config_vars >>

\* The agent and the workflow are built on the cleaned table, or on the table
\* load_data returned; the installed pandas is any version.
SessionInit ==
    /\ query \in SessionQueries
    /\ pc = "ready"
    /\ path = ""
    /\ pandas_code = NoCode
    /\ result = None
    /\ response = ""
    /\ visualization = NoViz
    /\ dtypes \in { clean_dtypes, loaded_dtypes }
    /\ data_columns = DOMAIN dtypes
    /\ groupby_observed \in BOOLEAN
    /\ previous = NoPrevious
    /\ LoaderIdle
    /\ NarrativeIdle
    /\ ConfigIdle

SessionNext ==
    \/ page_load_data
    \/ run
    \/ execute_query
    \/ process_query_locally
    \/ generate_visualization_pipeline
    \/ again

SessionSpec == SessionInit /\ [][SessionNext]_vars

\* ================================================================== claims
\* The keyword kw occurs in the lower-cased query of the current state.
Has(kw) == contains(kw, lower(query))

\* The keywords that open the ten rule families, in the canonical order.
FamilyKeywords ==
    << { KW.revenue, KW.sales }, { KW.category }, { KW.mall, KW.shopping }, { KW.gender },
       { KW.age }, { KW.payment }, { KW.customer }, { KW.trend, KW.time }, { KW.quantity },
       { KW.summary, KW.overview } >>

\* The families with a keyword in the query.
Matching ==
    LET query_lower == lower(query)
    IN  { n \in 1..Len(FamilyKeywords) : \E kw \in FamilyKeywords[n] : contains(kw, query_lower) }

Matches(n) == \E kw \in FamilyKeywords[n] : Has(kw)

\* The lowest-numbered family with a keyword in the query; 11 is the default rule.
FirstFamily ==
    LET matching == Matching
    IN  IF matching = {} THEN Len(FamilyKeywords) + 1
        ELSE CHOOSE n \in matching : \A m \in matching : n <= m

NoRuleKeyword == FirstFamily = Len(FamilyKeywords) + 1

Done(p) == pc = "done" /\ path = p

\* The translation is "reduction of metric grouped by the columns by".
Is(code, by, metric, agg) ==
    code.kind = "groupby" /\ code.by = by /\ code.metric = metric /\ code.agg = agg

\* The chart type the chart rule of the specification gives the query.
ChartRule ==
    IF Has(KW.trend) THEN "line"
    ELSE IF Has(KW.pie) \/ Has(KW.distribution) THEN "pie"
    ELSE "bar"

\* ---- C1 ----------------------------------------------------------------
\* C1 as stated: a query with none of the rule keywords is translated without
\* an error to the default rule (sum of total_amount by category) and its chart
\* type is bar.
C1_DefaultRuleChartBar ==
    (pc = "done" /\ NoRuleKeyword) =>
        /\ Done("run") =>
              Is(pandas_code, <<"category">>, "total_amount", "sum")
              /\ response # "Error in customer data analysis"
        /\ Done("execute_query") =>
              Is(pandas_code, <<"category">>, "total_amount", "sum")
              /\ response = "success"
              /\ visualization.chart_type = "bar"
        /\ Done("generate_visualization_pipeline") =>
              response = "returned" /\ visualization.chart_type = "bar"

\* C1 amended: a query with none of the rule keywords is translated without an
\* error to the default rule (sum of total_amount by category); its chart type
\* is pie when the query contains 'pie' or 'distribution' and bar otherwise
\* (execute_query's descriptor says 'error' instead when the chart call raised).
C1_DefaultRule ==
    (pc = "done" /\ NoRuleKeyword) =>
        /\ Done("run") =>
              Is(pandas_code, <<"category">>, "total_amount", "sum")
              /\ response # "Error in customer data analysis"
              /\ result.type = "DataFrame"
        /\ Done("execute_query") =>
              Is(pandas_code, <<"category">>, "total_amount", "sum")
              /\ response = "success"
              /\ visualization.chart_type \in
                    { "error", (IF Has(KW.pie) \/ Has(KW.distribution) THEN "pie" ELSE "bar") }
              /\ (visualization.figure # "None" =>
                    visualization.chart_type = (IF Has(KW.pie) \/ Has(KW.distribution) THEN "pie" ELSE "bar"))
        /\ Done("generate_visualization_pipeline") =>
              response = "returned"
              /\ visualization.chart_type =
                    (IF Has(KW.pie) \/ Has(KW.distribution) THEN "pie" ELSE "bar")

\* A query without rule keyword that names a distribution was executed: default
\* rule, pie chart.
C1_Witness ==
    /\ Done("execute_query")
    /\ NoRuleKeyword
    /\ Has(KW.distribution)
    /\ Is(pandas_code, <<"category">>, "total_amount", "sum")
    /\ visualization.chart_type = "pie"

\* ---- C2 ----------------------------------------------------------------
\* The canonical rule table: per family, its sub-rules top to bottom, each a
\* set of keywords (empty: applies always) and the aggregation it selects.
Sum(by, metric) == groupby(by, metric, "sum", "result")

RuleTable ==
    << << << { KW.category }, Sum(<<"category">>, "total_amount") >>,
          << { KW.mall, KW.shopping }, Sum(<<"shopping_mall">>, "total_amount") >>,
          << { KW.gender }, Sum(<<"gender">>, "total_amount") >>,
          << { KW.age }, Sum(<<"age_group">>, "total_amount") >>,
          << {}, Sum(<<"invoice_date">>, "total_amount") >> >>,
       << << { KW.popular, KW.most }, size(<<"category">>, TRUE, "result") >>,
          << {}, Sum(<<"category">>, "total_amount") >> >>,
       << << { KW.popular, KW.most }, size(<<"shopping_mall">>, TRUE, "result") >>,
          << {}, Sum(<<"shopping_mall">>, "total_amount") >> >>,
       << << { KW.spending }, Sum(<<"gender">>, "total_amount") >>,
          << { KW.preference, KW.category }, Sum(<<"gender", "category">>, "total_amount") >>,
          << {}, size(<<"gender">>, FALSE, "result") >> >>,
       << << { KW.group }, Sum(<<"age_group">>, "total_amount") >>,
          << { KW.spending }, groupby(<<"age_group">>, "total_amount", "mean", "result") >>,
          << {}, size(<<"age_group">>, FALSE, "result") >> >>,
       << << { KW.method }, Sum(<<"payment_method">>, "total_amount") >>,
          << {}, size(<<"payment_method">>, FALSE, "result") >> >>,
       << << { KW.segment }, segment_block >>,
          << {}, Sum(<<"customer_id">>, "total_amount") >> >>,
       << << { KW.daily }, Sum(<<"invoice_date">>, "total_amount") >>,
          << { KW.monthly }, Sum(<<"year", "month">>, "total_amount") >>,
          << {}, Sum(<<"invoice_date">>, "total_amount") >> >>,
       << << { KW.category }, Sum(<<"category">>, "quantity") >>,
          << { KW.mall }, Sum(<<"shopping_mall">>, "quantity") >>,
          << {}, Sum(<<"invoice_date">>, "quantity") >> >>,
       << << {}, summary_block >> >>,
       << << {}, Sum(<<"category">>, "total_amount") >> >> >>

Applies(rule) == rule[1] = {} \/ \E kw \in rule[1] : Has(kw)

\* The aggregation of the first sub-rule of family n that applies to the query.
FirstSubRule(n) ==
    LET rules == RuleTable[n]
        i == CHOOSE k \in 1..Len(rules) : Applies(rules[k]) /\ \A m \in 1..(k - 1) : ~ Applies(rules[m])
    IN  rules[i][2]

\* C2: the agent tool's translation of every query is the aggregation of the
\* first applicable sub-rule of the lowest-numbered family (1 revenue/sales,
\* 2 category, 3 mall/shopping, 4 gender, 5 age, 6 payment, 7 customer,
\* 8 trend/time, 9 quantity, 10 summary/overview, 11 default) that matches it.
C2_CanonicalOrder ==
    Done("run") => pandas_code = FirstSubRule(FirstFamily)

\* A query with keywords of families 2, 4 and 9 was translated by family 2.
C2_Witness ==
    /\ Done("run")
    /\ ~ Matches(1) /\ Matches(2) /\ Matches(4) /\ Matches(9)
    /\ pandas_code = Sum(<<"category">>, "total_amount")

\* ---- C3 ----------------------------------------------------------------
\* C3: every translator (agent tool and SimpleAgenticWorkflow) maps a query
\* with 'revenue' or 'sales' to the sum of total_amount grouped by category if
\* it has 'category', else by shopping_mall if it has 'mall' or 'shopping',
\* else by gender, else by age bucket, and otherwise by invoice_date.
C3_RevenueGrouping ==
    ((Done("run") \/ Done("execute_query")) /\ Matches(1)) =>
        Is(pandas_code,
           IF Has(KW.category) THEN <<"category">>
           ELSE IF Has(KW.mall) \/ Has(KW.shopping) THEN <<"shopping_mall">>
           ELSE IF Has(KW.gender) THEN <<"gender">>
           ELSE IF Has(KW.age) THEN <<"age_group">>
           ELSE <<"invoice_date">>,
           "total_amount", "sum")

\* ---- C4 ----------------------------------------------------------------
\* C4: without 'revenue'/'sales', a query with 'category' (resp. with 'mall' or
\* 'shopping' and no 'category') is translated, by the agent tool and by
\* SimpleAgenticWorkflow, to the row count per category (resp. shopping_mall)
\* sorted by count descending if it has 'popular' or 'most', and to the sum of
\* total_amount per category (resp. shopping_mall) otherwise; executing it
\* gives that table.
C4_PopularOrSum ==
    ((Done("run") \/ Done("execute_query")) /\ ~ Matches(1) /\ (Matches(2) \/ Matches(3))) =>
        LET key == IF Matches(2) THEN "category" ELSE "shopping_mall"
        IN  IF Has(KW.popular) \/ Has(KW.most)
            THEN /\ Is(pandas_code, << key >>, "count", "size")
                 /\ pandas_code.sort_desc
                 /\ result = DataFrame(<< key, "count" >>, "size", TRUE)
            ELSE /\ Is(pandas_code, << key >>, "total_amount", "sum")
                 /\ ~ pandas_code.sort_desc
                 /\ result = DataFrame(<< key, "total_amount" >>, "sum", FALSE)

\* 'What are the most popular shopping malls?' was run by the agent tool:
\* count per shopping_mall, sorted descending.
C4_Witness ==
    /\ Done("run")
    /\ query = queries[2]
    /\ result = DataFrame(<<"shopping_mall", "count">>, "size", TRUE)

\* ---- C5 ----------------------------------------------------------------
\* C5: a query with 'gender' and without 'revenue'/'sales' is translated to the
\* sum of total_amount by gender if it has 'spending', else to the sum of
\* total_amount by (gender, category) if it has 'preference' or 'category',
\* and to the row count by gender otherwise.
C5_GenderRules ==
    ((Done("run") \/ Done("execute_query")) /\ ~ Matches(1) /\ Matches(4)) =>
        IF Has(KW.spending) THEN Is(pandas_code, <<"gender">>, "total_amount", "sum")
        ELSE IF Has(KW.preference) \/ Has(KW.category)
        THEN Is(pandas_code, <<"gender", "category">>, "total_amount", "sum")
        ELSE Is(pandas_code, <<"gender">>, "count", "size")

\* ---- C6 ----------------------------------------------------------------
\* C6: when 'age' is the first matching family, every query path (agent tool,
\* the agent's local processing, SimpleAgenticWorkflow) computes the sum of
\* total_amount by age bucket if the query has 'group', else the mean of
\* total_amount by age bucket if it has 'spending', else the row count by age
\* bucket.
C6_AgeRules ==
    ((Done("run") \/ Done("process_query_locally") \/ Done("execute_query")) /\ FirstFamily = 5) =>
        result =
            IF Has(KW.group) THEN DataFrame(<<"age_group", "total_amount">>, "sum", FALSE)
            ELSE IF Has(KW.spending) THEN DataFrame(<<"age_group", "total_amount">>, "mean", FALSE)
            ELSE DataFrame(<<"age_group", "count">>, "size", FALSE)

\* ---- C7 ----------------------------------------------------------------
\* C7: when 'customer' is the first matching family, running the agent tool
\* returns, without an error, the count of customers per segment if the query
\* has 'segment', and the sum of total_amount per customer id otherwise.
C7_CustomerRules ==
    (Done("run") /\ FirstFamily = 7) =>
        /\ response # "Error in customer data analysis"
        /\ result =
              IF Has(KW.segment) THEN DataFrame(<<"segment", "count">>, "size", FALSE)
              ELSE DataFrame(<<"customer_id", "total_amount">>, "sum", FALSE)

\* ---- C8 ----------------------------------------------------------------
\* C8: a query with 'quantity' and no keyword of the revenue/sales, gender,
\* age, payment, customer or trend/time families is translated to the sum of
\* quantity by category if it has 'category', else by shopping_mall if it has
\* 'mall', and by invoice_date otherwise.
C8_QuantityRules ==
    (Done("run") /\ Matches(9)
        /\ ~ Matches(1) /\ ~ Matches(4) /\ ~ Matches(5) /\ ~ Matches(6) /\ ~ Matches(7) /\ ~ Matches(8)) =>
        Is(pandas_code,
           IF Has(KW.category) THEN <<"category">>
           ELSE IF Has(KW.mall) THEN <<"shopping_mall">>
           ELSE <<"invoice_date">>,
           "quantity", "sum")

\* ---- C9 ----------------------------------------------------------------
\* C9: when 'summary'/'overview' is the first matching family, executing the
\* translation (agent tool, SimpleAgenticWorkflow) returns, not an error and
\* not a table, a dict of exactly the eight statistics total revenue,
\* transactions, customers, invoices, mean transaction value, total quantity,
\* categories and malls.
C9_SummaryBundle ==
    ((Done("run") \/ Done("execute_query")) /\ FirstFamily = 10) =>
        /\ response \notin { "Error in customer data analysis", "failure" }
        /\ result.type = "dict"
        /\ result.keys = { "total_revenue", "total_transactions", "total_customers", "total_invoices",
                           "avg_transaction_value", "total_quantity", "categories", "malls" }

\* ---- C10 ---------------------------------------------------------------
\* C10: the chart type depends on the query text alone: line for every query
\* with 'trend', pie for every query without 'trend' that has 'pie' or
\* 'distribution', bar for every other query.
C10_ChartRule ==
    ((Done("execute_query") /\ response = "success") \/ Done("generate_visualization_pipeline")) =>
        visualization.chart_type = ChartRule

\* C11: generate_visualization on a table of fewer than two columns builds no
\* chart (figure None) for each chart type and still returns a descriptor with
\* a chart type and a title; execute_query reports success whenever its
\* statement executed, whatever the visualization step returned.
C11_FewColumnsNoChart ==
    pc = "done" =>
        /\ (path \in { "generate_visualization", "execute_query" }
               /\ result.type = "DataFrame" /\ Len(result.columns) < 2)
             => /\ visualization.figure = "None"
                /\ visualization.chart_type \in { "line", "bar", "pie" }
                /\ visualization.title # << >>
        /\ (path = "execute_query" /\ pandas_code # ErrorInTranslation) => response = "success"

\* A pie query on a one-column table: descriptor returned, no figure.
C11_Witness ==
    /\ Done("generate_visualization")
    /\ Len(result.columns) = 1
    /\ visualization.chart_type = "pie"
    /\ visualization.figure = "None"
    /\ visualization.title = <<"Distribution Analysis">>

\* C24: execute_query and process_query never raise; a returned object with
\* success = False carries a message and neither result nor chart; a returned
\* object with success = True never carries a chart descriptor in the error state.
C24_StructuredFailure ==
    pc = "done" =>
        /\ path = "execute_query" => response \in { "success", "failure" }
        /\ (path = "execute_query" /\ response = "failure") => (result = None /\ visualization = NoViz)
        /\ (path = "process_query_locally" /\ response = "Error") => (result = None /\ visualization = NoViz)
        /\ (path = "execute_query" /\ response = "success") => visualization.chart_type # "error"

\* The keywords, in the order of KW.
KeywordList ==
    << KW.revenue, KW.sales, KW.category, KW.mall, KW.shopping, KW.gender, KW.age, KW.payment,
       KW.customer, KW.trend, KW.time, KW.quantity, KW.summary, KW.overview, KW.popular, KW.most,
       KW.spending, KW.preference, KW.group, KW.method, KW.segment, KW.daily, KW.monthly,
       KW.distribution, KW.pie >>

\* The query made of the keywords that occur in q, as separate words.
AsSeparateWords(q) ==
    LET query_lower == lower(q)
    IN  join(SelectSeq(KeywordList, LAMBDA kw : contains(kw, query_lower)))

\* The query with the same keywords as separate words, for the queries of inside_word_queries.
SeparateWordsOf(q) ==
    inside_word_queries[CHOOSE i \in 1..Len(inside_word_queries) : inside_word_queries[i][1] = q][2]

OnCleanedTable == "invoice_date_str" \in data_columns

\* C21: after any sequence of query operations and of the cached page loader
\* the cleaned table has the columns and column types clean_data gave it.
C21_ReadOnlyTable ==
    OnCleanedTable => (data_columns = cleaned_columns /\ dtypes = clean_dtypes)

\* C22: a query executed a second time on the cleaned table, other queries
\* having run in between, yields the result table of its first execution.
C22_Idempotence ==
    (pc = "done" /\ OnCleanedTable /\ previous.path = path) =>
        /\ result = previous.result
        /\ result_table(result, table_read(path, data_columns, dtypes), groupby_observed) = previous.table

\* The exception, if any, the aggregation translated from the query raises on the table.
Raised ==
    IF path = "run"
    THEN (IF { "price", "quantity" } \subseteq data_columns
          THEN exec(generate_pandas_code(query), "", data_columns \cup { "total_amount" }).raised
          ELSE "KeyError")
    ELSE exec(translate_query_to_pandas(query), "result = ", data_columns).raised

\* C25: a failed aggregation is reported with a type: what _run reports for a
\* column the data does not have differs from what it reports for an error
\* inside the aggregation.
C25_TypedFailure ==
    (pc = "done" /\ path = "run" /\ previous = NoPrevious /\ Raised = "KeyError") =>
        response # run_response([ raised |-> "IndentationError", value |-> None ])

\* ------------------------------------------------------- loader claims
\* clean_data has run and left a table.
Cleaned == cleaned_data.type = "DataFrame"

\* The rows of a table, as a set of indices.
Rows(table) == 1..Len(table.rows)

\* The age bucket by the edges 0, 25, 35, 45, 55, 100 with each upper edge in
\* the lower bucket.
AgeBucket(age) ==
    IF age \in 1..25 THEN "18-25"
    ELSE IF age \in 26..35 THEN "26-35"
    ELSE IF age \in 36..45 THEN "36-45"
    ELSE IF age \in 46..55 THEN "46-55"
    ELSE IF age \in 56..100 THEN "55+"
    ELSE NaN

\* C12: the age bucket clean assigns depends only on age, with each upper edge
\* of 0, 25, 35, 45, 55, 100 in the lower bucket (25 -> '18-25', 26 -> '26-35',
\* 55 -> '46-55', 56 -> '55+'); the agent's local processing gives every age of
\* the input the bucket the loader gives it.
C12_AgeBuckets ==
    Cleaned =>
        /\ \A i \in Rows(cleaned_data) :
              /\ cleaned_data.rows[i].age_group = AgeBucket(cleaned_data.rows[i].age)
              /\ cleaned_data.rows[i].age_group = local_age_group(cleaned_data.rows[i].age)
        /\ \A i \in Rows(loaded_data) :
              "age" \notin loaded_data.rows[i].isnull =>
                  derive(loaded_data.rows[i]).age_group = local_age_group(loaded_data.rows[i].age)
        /\ cut(25, age_bins, age_labels) = "18-25" /\ local_age_group(25) = "18-25"
        /\ cut(26, age_bins, age_labels) = "26-35" /\ local_age_group(26) = "26-35"
        /\ cut(55, age_bins, age_labels) = "46-55" /\ local_age_group(55) = "46-55"
        /\ cut(56, age_bins, age_labels) = "55+" /\ local_age_group(56) = "55+"

\* A cleaned table with a customer of 55 in '46-55' and one of 56 in '55+'.
C12_Witness ==
    /\ Cleaned
    /\ Len(cleaned_data.rows) = 2
    /\ cleaned_data.rows[1].age = 55 /\ cleaned_data.rows[1].age_group = "46-55"
    /\ cleaned_data.rows[2].age = 56 /\ cleaned_data.rows[2].age_group = "55+"

\* C13: for every input row with an age and an amount of at least 0, clean
\* assigns one of the five age labels and one of the five spending labels.
C13_BucketsTotal ==
    Cleaned =>
        \A i \in Rows(loaded_data) :
            LET r == loaded_data.rows[i]
            IN  (r.isnull \cap { "age", "quantity", "price" } = {} /\ total_amount(r) >= 0)
                => /\ derive(r).age_group \in { age_labels[k] : k \in 1..Len(age_labels) }
                   /\ derive(r).spending_category \in { spending_labels[k] : k \in 1..Len(spending_labels) }

\* get_customer_segments has returned a table.
Segmented == returned.op = "get_customer_segments" /\ returned.type = "DataFrame"

\* C14 as stated: a customer whose sum is a bin edge is in the higher bucket, 0 in Budget.
C14_EdgeInHigherBucket ==
    Segmented =>
        \A g \in returned.groups :
            /\ g.total_amount = 0 => g.segment = "Budget"
            /\ g.total_amount = 1000 => g.segment = "Regular"
            /\ g.total_amount = 5000 => g.segment = "Premium"
            /\ g.total_amount = 10000 => g.segment = "VIP"

\* C14: with thresholds (0, 1000, 5000, 10000, inf) a customer whose sum is a
\* bin edge is in the lower bucket (1000 Budget, 5000 Regular, 10000 Premium);
\* 0 lies in no bin, and no customer of a cleaned table has a sum of 0 or less.
C14_EdgeInLowerBucket ==
    Segmented =>
        /\ \A g \in returned.groups :
              /\ g.total_amount > 0
              /\ g.total_amount <= 1000 => g.segment = "Budget"
              /\ (g.total_amount > 1000 /\ g.total_amount <= 5000) => g.segment = "Regular"
              /\ (g.total_amount > 5000 /\ g.total_amount <= 10000) => g.segment = "Premium"
              /\ g.total_amount > 10000 => g.segment = "VIP"
        /\ cut(0, segment_bins, segment_labels) = NaN

\* Customers with sums of exactly 1000 and exactly 5000.
C14_Witness ==
    /\ Segmented
    /\ \E g \in returned.groups : g.total_amount = 1000 /\ g.segment = "Budget"
    /\ \E g \in returned.groups : g.total_amount = 5000 /\ g.segment = "Regular"

\* An input row with every required cell present and a date that reads as DD/MM/YYYY.
Complete(r) == r.isnull = {} /\ to_datetime(r.invoice_date) # NaT

\* C15: no row of the cleaned table has a null cell; rows with a null required
\* cell or an unreadable date are absent, and every complete input row is kept.
C15_CleanKeepsCompleteRows ==
    (Cleaned /\ returned.op \in { "clean_data", "load_and_prepare_customer_data" }) =>
        /\ \A i \in Rows(cleaned_data) : cleaned_data.rows[i].isnull = {}
        /\ column(cleaned_data.rows, "invoice_no")
             = column(SelectSeq(loaded_data.rows, Complete), "invoice_no")

\* C16: every row of the cleaned table has total_amount = quantity * price and
\* total_amount >= 0, whatever the signs of the input's quantities and prices.
C16_TotalAmount ==
    Cleaned =>
        \A i \in Rows(cleaned_data) :
            /\ cleaned_data.rows[i].total_amount = cleaned_data.rows[i].quantity * cleaned_data.rows[i].price
            /\ cleaned_data.rows[i].total_amount >= 0

\* An input with a negative amount (dropped) and a row of two negative factors (kept).
C16_Witness ==
    /\ Cleaned
    /\ \E i \in Rows(loaded_data) : loaded_data.rows[i].quantity * loaded_data.rows[i].price < 0
    /\ \E i \in Rows(cleaned_data) : cleaned_data.rows[i].quantity < 0 /\ cleaned_data.rows[i].total_amount = 500

\* The sum of total_amount over the rows of a grouped table.
RECURSIVE total_of(_)
total_of(groups) ==
    IF groups = {} THEN 0
    ELSE LET g == CHOOSE g \in groups : TRUE
         IN  g.total_amount + total_of(groups \ { g })

\* get_data_for_visualization has returned a grouped table.
Grouped == returned.op = "get_data_for_visualization" /\ returned.type = "DataFrame"

\* C17: for each single-key grouping of a cleaned table the per-group sums of
\* total_amount add up to the sum over all rows, and every row is in exactly one group.
C17_Conservation ==
    Grouped =>
        /\ total_of(returned.groups) = sum(column(cleaned_data.rows, "total_amount"))
        /\ \A i \in Rows(cleaned_data) :
              Cardinality({ g \in returned.groups : g.key = cleaned_data.rows[i][returned.arg] }) = 1

\* Two rows of one category, grouped by category into one group of 600.
C17_Witness ==
    /\ Grouped
    /\ Len(cleaned_data.rows) = 2
    /\ returned.arg = "category"
    /\ Cardinality(returned.groups) = 1
    /\ \E g \in returned.groups : g.total_amount = 600

C19_StatsHaveTotalRevenue ==
    returned.op = "get_basic_stats" =>
        /\ returned.raised = ""
        /\ returned.type = "dict"
        /\ "total_revenue" \in returned.keys

\* C23: a second clean_data, or a second load and clean of the same file,
\* gives the cleaned table the first gave; clean_data leaves the loaded table
\* (loader.data) as it was and returns the table it stores.
C23_RoundTrip ==
    [][ /\ returned'.op = "clean_data" => loaded_data' = loaded_data
        /\ (returned'.op \in { "clean_data", "load_and_prepare_customer_data" } /\ Cleaned /\ Cleaned')
             => cleaned_data' = cleaned_data
        /\ (returned'.op \in { "clean_data", "load_and_prepare_customer_data" } /\ Cleaned')
             => returned'.rows = cleaned_data'.rows
      ]_vars

\* clean_data has run on a loaded table of two rows, one of which it dropped.
C23_Witness ==
    /\ returned.op = "clean_data"
    /\ Cleaned
    /\ loaded_data = Table(file.rows)
    /\ Len(loaded_data.rows) = 2
    /\ Len(cleaned_data.rows) = 1
    /\ returned.rows = cleaned_data.rows

\* The customers of the cleaned table.
Customers == group_keys(cleaned_data.rows, "customer_id")

\* C29: on every cleaned table get_customer_segments returns one row per
\* distinct customer_id, each with a segment among Budget, Regular, Premium,
\* VIP, so the customers counted per segment add up to the distinct customers.
C29_OneSegmentPerCustomer ==
    Segmented =>
        /\ \A c \in Customers : Cardinality({ g \in returned.groups : g.customer_id = c }) = 1
        /\ \A g \in returned.groups :
              /\ g.customer_id \in Customers
              /\ g.segment \in { segment_labels[k] : k \in 1..Len(segment_labels) }
        /\ sum([ k \in 1..Len(segment_labels) |->
                   Cardinality({ g \in returned.groups : g.segment = segment_labels[k] }) ])
             = Cardinality(Customers)

\* One customer with two invoices: one row, in Budget.
C29_Witness ==
    /\ Segmented
    /\ Len(cleaned_data.rows) = 2
    /\ Cardinality(Customers) = 1
    /\ \E g \in returned.groups : g.invoice_no = 2 /\ g.segment = "Budget"

\* The accessors of the loader.
Accessors ==
    { "get_basic_stats", "get_data_for_visualization", "get_customer_segments" } \cup DOMAIN summary_key

C26_ConstructionEndsLocal ==
    generator # NoGenerator =>
        /\ generator.raised = ""
        /\ generator.ai_provider = "None" <=> generator.model_name = "local"
        /\ generator.ai_provider \in { "None", "AIProvider", "genai" }
        /\ generator.failure # "" => (generator.model_name = "local" /\ generator.ai_provider = "None")

\* NarrativeGenerator('gpt') whose client constructor raised: local mode.
C26_Witness ==
    /\ generator.requested = "gpt"
    /\ generator.failure = "Exception"
    /\ generator.model_name = "local"
    /\ generator.ai_provider = "None"

\* C20: for every narrative kind, when the external text-generation call fails
\* the generator returns the local template of that kind, never an error message.
C20_FallbackToLocalTemplate ==
    narrative.call = "failed" => narrative.text = "local template"

====
